---- MODULE Spec2Model ----
(***************************************************************************)
(* Model of the scoring and aggregation core of skilljack-evals:          *)
(*   scorer/deterministic.ts  scoreDeterministic                           *)
(*   scorer/judge.ts          SkillJudge.judgeResult / parseJudgeResponse  *)
(*   scorer/scorer.ts         scoreTask / scoreAll / mergeScores           *)
(*   scorer/aggregator.ts     aggregateResults / aggregateScores           *)
(*                                                                         *)
(* Numbers.  Weights are held in hundredths (0.3 is 30) and a             *)
(* weightedScore in four-hundredths (1.0 is 400), so that                  *)
(*   w_d*discovery + w_a*((adherence-1)/4) + w_o*((outputQuality-1)/4)     *)
(* is the integer 4*w_d*discovery + w_a*(adherence-1) + w_o*(output-1).    *)
(* Strings that the code searches (output, marker) are sequences of       *)
(* one-character strings.                                                  *)
(***************************************************************************)
EXTENDS Integers, Sequences, FiniteSets, TLC

\* ------------------------------------------------------------------ bounds

\* Longest toolCalls list of a trial.
MaxCalls == 2
\* Longest skillLoads list of a trial (the runner keeps it free of duplicates).
MaxLoads == 2

\* ------------------------------------------------------------------ values

\* JavaScript null / undefined for an object-valued slot.
Null == [null |-> TRUE]

\* A boolean-or-null slot (markerFound, expectedToolsCalled, ...).
NullB == "null"
True == "true"
False == "false"
TriOf(b) == IF b THEN True ELSE False

\* Seq(S) up to length n.
SeqUpTo(S, n) == UNION {[1..k -> S] : k \in 0..n}

\* Duplicate-free sequences over S up to length n.
DistinctSeqUpTo(S, n) ==
  {s \in SeqUpTo(S, n) : \A i, j \in DOMAIN s : i # j => s[i] # s[j]}

\* String.prototype.toLowerCase over the alphabet of the model.
ToLowerCase(s) ==
  [i \in DOMAIN s |->
     CASE s[i] = "O" -> "o"
       [] s[i] = "K" -> "k"
       [] OTHER -> s[i]]

\* String.prototype.includes on character sequences.
Includes(s, sub) ==
  \E i \in 1..(Len(s) - Len(sub) + 1) : SubSeq(s, i, i + Len(sub) - 1) = sub

\* ------------------------------------------------------------------ config

\* DEFAULT_CONFIG.defaultWeights, in hundredths.
DefaultWeightDiscovery == 30
DefaultWeightAdherence == 40
DefaultWeightOutput == 30

\* A Map<string, number> of weights is a function on a subset of the dimensions.
\* getDefaultWeights(loadConfigSync()): loadEnvConfig never sets defaultWeights,
\* so mergeConfigs leaves the defaults in place.
getDefaultWeights ==
  [d \in {"discovery", "adherence", "output"} |->
     CASE d = "discovery" -> DefaultWeightDiscovery
       [] d = "adherence" -> DefaultWeightAdherence
       [] OTHER -> DefaultWeightOutput]

\* weights.get(key) ?? dflt
WeightGet(weights, key, dflt) ==
  IF key \in DOMAIN weights THEN weights[key] ELSE dflt

\* ------------------------------------------------------------------ inputs

\* Skill names a trial can record; "greeting" is the skill the tasks expect.
SkillNames == {"greeting", "other"}

\* task.expectedSkillLoad: a skill name, or "none" for a negative test.
ExpectedSkillLoads == {"greeting", "none"}

\* check.expectMarker and the outputs a run can produce (with the marker in
\* another case, or without it).
Marker == <<"O", "K">>
NoMarker == <<>>
\* A marker whose text happens to read 'false positive'.
FalsePositiveMarker ==
  <<"f", "a", "l", "s", "e", " ", "p", "o", "s", "i", "t", "i", "v", "e">>
Outputs == {<<"h", "i">>, <<"h", "i", " ", "o", "k">>}

\* Names of tools that contain the substring 'skill' / 'skill-resource'.
ContainsSkill(toolName) ==
  toolName \in {"mcp__sj__skill", "mcp__sj__skill-resource"}
ContainsSkillResource(toolName) == toolName = "mcp__sj__skill-resource"

\* call.input: undefined, or an object whose skill / skill_name / name fields are
\* strings ("" stands for an absent or empty field: both are falsy).
NoInput == [undefined |-> TRUE]
Input(skill, skill_name, name) ==
  [skill |-> skill, skill_name |-> skill_name, name |-> name]

\* ToolCallRecord (toolUseId and timestamp are never read by the scorers).
ToolCall(tool, input) == [tool |-> tool, input |-> input]

ToolCallKinds ==
  { ToolCall("Skill", Input("greeting", "", "")),
    ToolCall("mcp__sj__skill", Input("", "", "other")),
    ToolCall("Skill", Input("", "", "")),
    ToolCall("mcp__sj__skill-resource", Input("", "", "greeting")) }

\* DeterministicCheck of a task (parseTask): expectSkillActivation defaults to
\* true; expectMarker, expectToolCalls and expectNoToolCalls are optional.
Check(activation, marker, tools, noTools) ==
  [expectSkillActivation |-> activation, expectMarker |-> marker,
   expectToolCalls |-> tools, expectNoToolCalls |-> noTools]

Checks == {Check(a, m, <<>>, <<>>) : a \in BOOLEAN, m \in {NoMarker, Marker}}

\* EvalCriteria lists (description is never read by the scorers).
Criterion(dimension, weight) == [dimension |-> dimension, weight |-> weight]
CustomCriteria ==
  << Criterion("discovery", 50), Criterion("adherence", 30),
     Criterion("output", 20) >>
CriteriaLists == {<<>>, CustomCriteria}

\* EvalTask
Task(id, expected, criteria, check) ==
  [id |-> id, expectedSkillLoad |-> expected, criteria |-> criteria,
   deterministic |-> check]

Tasks ==
  {Task("t1", e, c, d) :
     e \in ExpectedSkillLoads, c \in CriteriaLists, d \in Checks \cup {Null}} \cup
  {Task("t1", "greeting", c, Check(TRUE, FalsePositiveMarker, <<>>, <<>>)) :
     c \in CriteriaLists}

\* TaskResult (prompt is never read by the scorers).  errorMessage is the
\* sequence of the pieces of text it is made of: <<>> is '', and joining
\* messages puts the separator between them as a piece of its own.
Trial(taskId, output, skillLoads, toolCalls, isError, errorMessage) ==
  [taskId |-> taskId, output |-> output, skillLoads |-> skillLoads,
   toolCalls |-> toolCalls, isError |-> isError, errorMessage |-> errorMessage,
   durationMs |-> 1, numTurns |-> 1, costUsd |-> 1]

\* The errored TaskResult every runner builds in its catch block, and
\* runTaskWithTimeout on a timeout: empty output, skillLoads and toolCalls.
ErroredTrial(taskId) ==
  [Trial(taskId, <<>>, <<>>, <<>>, TRUE, <<"boom">>)
     EXCEPT !.numTurns = 0, !.costUsd = 0]

\* The TaskResults a runner can hand to the scorer for a task.
Trials(taskId) ==
  {ErroredTrial(taskId)} \cup
  {Trial(taskId, o, l, c, FALSE, <<>>) :
     o \in Outputs,
     l \in DistinctSeqUpTo(SkillNames, MaxLoads),
     c \in SeqUpTo(ToolCallKinds, MaxCalls)}

\* ScorerOptions
Options(noDeterministic, noJudge) ==
  [noDeterministic |-> noDeterministic, noJudge |-> noJudge]
AllOptions == {Options(d, j) : d \in BOOLEAN, j \in BOOLEAN}

\* ---------------------------------------------------- deterministic scorer

isSkillTool(toolName) ==
  toolName = "Skill" \/
  (ContainsSkill(toolName) /\ ~ContainsSkillResource(toolName))

\* undefined is "".
extractSkillName(input) ==
  IF input = NoInput THEN ""
  ELSE IF input.skill # "" THEN input.skill
  ELSE IF input.skill_name # "" THEN input.skill_name
  ELSE input.name

\* One entry of DeterministicResult.details: the template literal that built it
\* and the values interpolated into it.
Detail(kind, skill, marker) == [kind |-> kind, skill |-> skill, marker |-> marker]

\* The first skill-tool call that carries a name (the loop's break), or 0.
FirstNamedSkillCall(toolCalls) ==
  LET named == {i \in DOMAIN toolCalls :
                  isSkillTool(toolCalls[i].tool) /\
                  extractSkillName(toolCalls[i].input) # ""}
  IN IF named = {} THEN 0 ELSE CHOOSE i \in named : \A j \in named : i <= j

\* Step 1 of scoreDeterministic: [skillActivated, activatedSkillName].
DetectActivation(result) ==
  IF result.isError THEN [activated |-> FALSE, name |-> ""]
  ELSE LET k == FirstNamedSkillCall(result.toolCalls)
       IN IF k # 0
            THEN [activated |-> TRUE,
                  name |-> extractSkillName(result.toolCalls[k].input)]
          ELSE IF Len(result.skillLoads) > 0
            THEN [activated |-> TRUE, name |-> result.skillLoads[1]]
          ELSE [activated |-> FALSE, name |-> ""]

\* "Verify activation matches expectations": the flag after the check and the
\* detail line it pushes.
VerifyActivation(task, check, act) ==
  IF check.expectSkillActivation
    THEN IF act.activated
           THEN IF task.expectedSkillLoad # "" /\ task.expectedSkillLoad # "none"
                  THEN IF act.name = task.expectedSkillLoad
                         THEN [activated |-> TRUE,
                               detail |-> Detail("SkillActivatedCorrectly", act.name, <<>>)]
                         ELSE [activated |-> FALSE,
                               detail |-> Detail("WrongSkillActivated", act.name, <<>>)]
                  ELSE [activated |-> TRUE,
                        detail |-> Detail("SkillActivated", act.name, <<>>)]
           ELSE [activated |-> FALSE,
                 detail |-> Detail("ExpectedActivationNoneLoaded", "", <<>>)]
    ELSE IF act.activated
           THEN [activated |-> TRUE,
                 detail |-> Detail("UnexpectedActivation", act.name, <<>>)]
           ELSE [activated |-> FALSE,
                 detail |-> Detail("CorrectlyNoActivation", "", <<>>)]

\* new Set(result.toolCalls.map((c) => c.tool))
CalledTools(result) == {result.toolCalls[i].tool : i \in DOMAIN result.toolCalls}

SeqRange(s) == {s[i] : i \in DOMAIN s}

\* scoreDeterministic below its first guard: the four checks and the result.
RunChecks(task, check, result) ==
    LET act == DetectActivation(result)
        ver == VerifyActivation(task, check, act)
        skillActivated == ver.activated
        errDetail ==
          IF result.isError THEN <<Detail("TaskErrored", "", <<>>)>> ELSE <<>>
        markerFound ==
          IF check.expectMarker # NoMarker
            THEN TriOf(Includes(ToLowerCase(result.output),
                                ToLowerCase(check.expectMarker)))
            ELSE NullB
        markerDetail ==
          IF markerFound = NullB THEN <<>>
          ELSE IF markerFound = True
            THEN <<Detail("MarkerFound", "", check.expectMarker)>>
            ELSE <<Detail("MarkerNotFound", "", check.expectMarker)>>
        expectedToolsCalled ==
          IF Len(check.expectToolCalls) > 0
            THEN TriOf(SeqRange(check.expectToolCalls) \subseteq CalledTools(result))
            ELSE NullB
        toolsDetail ==
          IF expectedToolsCalled = NullB THEN <<>>
          ELSE IF expectedToolsCalled = True
            THEN <<Detail("AllExpectedToolsCalled", "", <<>>)>>
            ELSE <<Detail("MissingExpectedToolCalls", "", <<>>)>>
        unexpectedToolsCalled ==
          IF Len(check.expectNoToolCalls) > 0
            THEN TriOf(SeqRange(check.expectNoToolCalls) \cap CalledTools(result) # {})
            ELSE NullB
        noToolsDetail ==
          IF unexpectedToolsCalled = NullB THEN <<>>
          ELSE IF unexpectedToolsCalled = True
            THEN <<Detail("ForbiddenToolsCalled", "", <<>>)>>
            ELSE <<Detail("NoForbiddenToolsCalled", "", <<>>)>>
        passed ==
          IF check.expectSkillActivation
            THEN /\ skillActivated
                 /\ markerFound # False
                 /\ expectedToolsCalled # False
                 /\ unexpectedToolsCalled # True
            ELSE ~skillActivated
    IN [skillActivated |-> skillActivated,
        skillName |-> act.name,
        markerFound |-> markerFound,
        expectedToolsCalled |-> expectedToolsCalled,
        unexpectedToolsCalled |-> unexpectedToolsCalled,
        passed |-> passed,
        details |-> errDetail \o <<ver.detail>> \o markerDetail
                      \o toolsDetail \o noToolsDetail]

\* Mutant: an errored trial is reported as null, like a task without a spec.
scoreDeterministicNullOnError(task, result) ==
  IF task.deterministic = Null \/ result.isError
    THEN Null
    ELSE RunChecks(task, task.deterministic, result)

scoreDeterministic(task, result) ==
  IF task.deterministic = Null
    THEN Null
    ELSE RunChecks(task, task.deterministic, result)

\* ------------------------------------------------------------------ judge

\* How a call or a try block ends: with a value, or by throwing.
Return(v) == [threw |-> FALSE, value |-> v]
Throw == [threw |-> TRUE, value |-> Null]

\* The JSON object of a judge reply.  A numeric field holds the value of
\* Number(field); 0 also stands for a missing or non-numeric field (NaN), which
\* `||` treats like 0.  failure_category "" is a missing one.
Reply(discovery, adherence, output_quality, failure_category, reasoning) ==
  [discovery |-> discovery, adherence |-> adherence,
   output_quality |-> output_quality, failure_category |-> failure_category,
   reasoning |-> reasoning]

NoReply == Reply(0, 0, 0, "", "")

Replies ==
  { Reply(1, 5, 5, "none", "all good"),
    Reply(0, 2, 3, "instruction_ambiguity", "gaps"),
    Reply(1, 0, 9, "weird", "") }

\* What the external query() does: it fails, or it yields a response text that
\* holds no {...} match, a match that JSON.parse rejects, or a JSON object.
Outcome(kind, data) == [kind |-> kind, data |-> data]
QueryOutcomes ==
  {Outcome(k, NoReply) : k \in {"failed", "nojson", "malformed"}} \cup
  {Outcome("json", r) : r \in Replies}

JudgeScore(taskId, discovery, adherence, outputQuality, weightedScore, failureCategory, reasoning) ==
  [taskId |-> taskId, discovery |-> discovery, adherence |-> adherence,
   outputQuality |-> outputQuality, weightedScore |-> weightedScore,
   failureCategory |-> failureCategory, reasoning |-> reasoning]

\* Mutant: the grades are divided by 4 without being shifted to start at 0.
WeightedSumUnshifted(weights, discovery, adherence, outputQuality) ==
  4 * WeightGet(weights, "discovery", DefaultWeightDiscovery) * discovery
  + WeightGet(weights, "adherence", DefaultWeightAdherence) * adherence
  + WeightGet(weights, "output", DefaultWeightOutput) * outputQuality

\* The weighted sum both parseJudgeResponse and mergeScores compute, in
\* four-hundredths.
WeightedSum(weights, discovery, adherence, outputQuality) ==
  4 * WeightGet(weights, "discovery", DefaultWeightDiscovery) * discovery
  + WeightGet(weights, "adherence", DefaultWeightAdherence) * (adherence - 1)
  + WeightGet(weights, "output", DefaultWeightOutput) * (outputQuality - 1)

\* Mutant: a parse failure is scored like a failed call, with neutral grades.
createErrorScoreNeutral(taskId, reason) ==
  JudgeScore(taskId, 0, 3, 3, 200, "discovery_failure", reason)

createErrorScore(taskId, reason) ==
  JudgeScore(taskId, 0, 1, 1, 0, "agent_error", reason)

\* response.match(/\{[\s\S]*?\}/)
JsonMatch(response) == response.kind # "nojson"

\* JSON.parse(jsonMatch[0])
JSONParse(response) ==
  IF response.kind = "malformed" THEN Throw ELSE Return(response.data)

parseJudgeResponse(response, taskId, weights) ==
  IF ~JsonMatch(response)
    THEN createErrorScore(taskId, "Failed to parse judge response")
  ELSE
    LET parsed == JSONParse(response) IN
    IF parsed.threw
      THEN createErrorScore(taskId, "Invalid JSON in judge response")
    ELSE
      LET data == parsed.value
          discovery == data.discovery
          adherence == IF data.adherence # 0 THEN data.adherence ELSE 1
          outputQuality ==
            IF data.output_quality # 0 THEN data.output_quality ELSE 1
      IN JudgeScore(taskId, discovery, adherence, outputQuality,
                    WeightedSum(weights, discovery, adherence, outputQuality),
                    IF data.failure_category # ""
                      THEN data.failure_category ELSE "none",
                    data.reasoning)

\* for (const c of task.criteria) weights.set(c.dimension, c.weight)
CriteriaWeights(criteria) ==
  [d \in {criteria[i].dimension : i \in DOMAIN criteria} |->
     LET last == CHOOSE i \in DOMAIN criteria :
                   /\ criteria[i].dimension = d
                   /\ \A j \in DOMAIN criteria :
                        criteria[j].dimension = d => j <= i
     IN criteria[last].weight]

\* query({prompt, ...}) consumed by the for-await loop: the response text, or the
\* exception the loop raises.
Query(outcome) == IF outcome.kind = "failed" THEN Throw ELSE Return(outcome)

\* Mutant: the errored trial is put to the external judge like any other.
JudgeIssuesQueryAlways(result) == TRUE

\* judgeResult issues its query only for a trial that is not errored.
JudgeIssuesQuery(result) == ~result.isError

\* Mutant: a failed call is reported like an unparseable reply.
HeuristicScoreAsError(task, result) ==
  [taskId |-> task.id, discovery |-> 0, adherence |-> 1, outputQuality |-> 1,
   weightedScore |-> 0, failureCategory |-> "agent_error",
   reasoning |-> "Judge call failed"]

\* The catch block of judgeResult.
HeuristicScore(task, result) ==
  LET discovery ==
        IF \E i \in DOMAIN result.skillLoads :
             result.skillLoads[i] = task.expectedSkillLoad
          THEN 1 ELSE 0
  IN JudgeScore(task.id, discovery, 3, 3, 200,
                IF discovery = 0 THEN "discovery_failure" ELSE "none",
                "Heuristic scoring")

\* Mutant: the query is not guarded by a try/catch, so its failure propagates.
judgeResultNoCatch(task, result, outcome) ==
  IF ~JudgeIssuesQuery(result)
    THEN Return(JudgeScore(task.id, 0, 1, 1, 0, "agent_error",
                           "Task failed with error"))
  ELSE
    LET response == Query(outcome) IN
    IF response.threw
      THEN Throw
      ELSE Return(parseJudgeResponse(response.value, task.id,
                                     CriteriaWeights(task.criteria)))

\* SkillJudge.judgeResult, given what the external query does when issued.
judgeResult(task, result, outcome) ==
  IF ~JudgeIssuesQuery(result)
    THEN Return(JudgeScore(task.id, 0, 1, 1, 0, "agent_error",
                           "Task failed with error"))
  ELSE
    LET response == Query(outcome) IN
    IF response.threw
      THEN Return(HeuristicScore(task, result))
      ELSE Return(parseJudgeResponse(response.value, task.id,
                                     CriteriaWeights(task.criteria)))

\* ------------------------------------------------------------------ merger

\* The characters of the two phrases mergeScores searches the details for.
PhraseChars(phrase) ==
  IF phrase = "false positive"
    THEN <<"f", "a", "l", "s", "e", " ", "p", "o", "s", "i", "t", "i", "v", "e">>
    ELSE <<"E", "x", "p", "e", "c", "t", "e", "d", " ", "s", "k",
          "i", "l", "l", " ", "a", "c", "t", "i", "v", "a", "t", "i", "o", "n">>

\* d.includes(phrase) for a detail line: the phrase is part of the template
\* literal that built the line, or of the marker text interpolated into it.
\* (No skill or tool name of the model contains either phrase.)
DetailIncludes(d, phrase) ==
  \/ phrase = "false positive" /\ d.kind = "UnexpectedActivation"
  \/ phrase = "Expected skill activation" /\ d.kind = "ExpectedActivationNoneLoaded"
  \/ Includes(d.marker, PhraseChars(phrase))

SomeDetailIncludes(details, phrase) ==
  \E i \in DOMAIN details : DetailIncludes(details[i], phrase)

computeDiscovery(isNegativeTest, activated) ==
  IF isNegativeTest
    THEN (IF activated THEN 0 ELSE 1)
    ELSE (IF activated THEN 1 ELSE 0)

\* One source-tagged part of CombinedScore.reasoning.
ReasonPart(src, details, text) == [src |-> src, details |-> details, text |-> text]

CombinedScore(taskId, det, judge, discovery, adherence, outputQuality, weightedScore, failureCategory, reasoning) ==
  [taskId |-> taskId, deterministic |-> det, judge |-> judge,
   discovery |-> discovery, adherence |-> adherence,
   outputQuality |-> outputQuality, weightedScore |-> weightedScore,
   failureCategory |-> failureCategory, reasoning |-> reasoning]

\* Mutant: with both evaluators present the judge's discovery is taken over.
MergeBothJudgeDiscovery(taskId, det, judge, weights, isNegativeTest) ==
  CombinedScore(taskId, det, judge, judge.discovery, judge.adherence,
                judge.outputQuality,
                WeightedSum(weights, judge.discovery, judge.adherence,
                            judge.outputQuality),
                judge.failureCategory,
                <<ReasonPart("Judge", <<>>, judge.reasoning)>>)

\* Case 1: both available.
MergeBoth(taskId, det, judge, weights, isNegativeTest) ==
  LET discovery == computeDiscovery(isNegativeTest, det.skillActivated)
      fc1 == IF ~det.passed /\ det.skillActivated = FALSE
               THEN "discovery_failure" ELSE judge.failureCategory
      fc2 == IF det.skillActivated /\ SomeDetailIncludes(det.details, "false positive")
               THEN "false_positive" ELSE fc1
  IN CombinedScore(taskId, det, judge, discovery, judge.adherence,
                   judge.outputQuality,
                   WeightedSum(weights, discovery, judge.adherence,
                               judge.outputQuality),
                   fc2,
                   (IF Len(det.details) > 0
                      THEN <<ReasonPart("Deterministic", det.details, "")>>
                      ELSE <<>>)
                   \o (IF judge.reasoning # ""
                         THEN <<ReasonPart("Judge", <<>>, judge.reasoning)>>
                         ELSE <<>>))

\* Mutant: the grades follow the activation flag instead of the overall pass.
MergeDeterministicOnlyByActivation(taskId, det, weights, isNegativeTest) ==
  LET discovery == computeDiscovery(isNegativeTest, det.skillActivated)
      adherence == IF det.skillActivated THEN 5 ELSE 1
      outputQuality == IF det.skillActivated THEN 5 ELSE 1
      fc1 == IF ~det.skillActivated /\
                SomeDetailIncludes(det.details, "Expected skill activation")
               THEN "discovery_failure" ELSE "none"
      fc2 == IF SomeDetailIncludes(det.details, "false positive")
               THEN "false_positive" ELSE fc1
  IN CombinedScore(taskId, det, Null, discovery, adherence, outputQuality,
                   WeightedSum(weights, discovery, adherence, outputQuality),
                   fc2,
                   <<ReasonPart("Deterministic only", det.details, "")>>)

\* Case 2: deterministic only.
MergeDeterministicOnly(taskId, det, weights, isNegativeTest) ==
  LET discovery == computeDiscovery(isNegativeTest, det.skillActivated)
      adherence == IF det.passed THEN 5 ELSE 1
      outputQuality == IF det.passed THEN 5 ELSE 1
      fc1 == IF ~det.skillActivated /\
                SomeDetailIncludes(det.details, "Expected skill activation")
               THEN "discovery_failure" ELSE "none"
      fc2 == IF SomeDetailIncludes(det.details, "false positive")
               THEN "false_positive" ELSE fc1
  IN CombinedScore(taskId, det, Null, discovery, adherence, outputQuality,
                   WeightedSum(weights, discovery, adherence, outputQuality),
                   fc2,
                   <<ReasonPart("Deterministic only", det.details, "")>>)

\* Case 3: judge only.
MergeJudgeOnly(taskId, judge) ==
  CombinedScore(taskId, Null, judge, judge.discovery, judge.adherence,
                judge.outputQuality, judge.weightedScore,
                judge.failureCategory,
                <<ReasonPart("", <<>>, judge.reasoning)>>)

\* Mutant: a task nobody scored is reported as a neutral, failure-free score.
MergeNoneAsNeutral(taskId) ==
  CombinedScore(taskId, Null, Null, 0, 3, 3, 200, "none",
                <<ReasonPart("", <<>>, "No scoring method available")>>)

\* Case 4: no scoring available.
MergeNone(taskId) ==
  CombinedScore(taskId, Null, Null, 0, 1, 1, 0, "agent_error",
                <<ReasonPart("", <<>>, "No scoring method available")>>)

mergeScores(taskId, det, judge, weights, isNegativeTest) ==
  IF det # Null /\ judge # Null
    THEN MergeBoth(taskId, det, judge, weights, isNegativeTest)
  ELSE IF det # Null
    THEN MergeDeterministicOnly(taskId, det, weights, isNegativeTest)
  ELSE IF judge # Null
    THEN MergeJudgeOnly(taskId, judge)
  ELSE MergeNone(taskId)

\* ------------------------------------------------------------------ scorer

\* scoreTask: "Run deterministic scoring".
RunDeterministic(task, result, options) ==
  IF ~options.noDeterministic /\ task.deterministic # Null
    THEN scoreDeterministic(task, result)
    ELSE Null

\* scoreTask: the guard of "Run LLM judge scoring".
JudgeWanted(task, options) == ~options.noJudge /\ Len(task.criteria) > 0

\* scoreTask: the merge that ends it.
FinishTask(task, det, judge) ==
  mergeScores(task.id, det, judge, getDefaultWeights,
              task.expectedSkillLoad = "none")

\* scoreTask as one call, given what the external query does if it is issued.
scoreTask(task, result, options, outcome) ==
  LET det == RunDeterministic(task, result, options)
      judged == IF JudgeWanted(task, options)
                  THEN judgeResult(task, result, outcome)
                  ELSE Return(Null)
  IN IF judged.threw THEN Throw
     ELSE Return(FinishTask(task, det, judged.value))

\* -------------------------------------------------------------- aggregator

\* Mutant: the reducer drops its accumulator, (sum, x) => x.
SumSeqLast(s) == IF s = <<>> THEN 0 ELSE s[Len(s)]

RECURSIVE SumSeq(_)
\* s.reduce((sum, x) => sum + x, 0)
SumSeq(s) == IF s = <<>> THEN 0 ELSE s[1] + SumSeq(Tail(s))

RECURSIVE ConcatSeq(_)
\* The concatenation of a sequence of sequences.
ConcatSeq(ss) == IF ss = <<>> THEN <<>> ELSE ss[1] \o ConcatSeq(Tail(ss))

RECURSIVE Dedup(_)
\* [...new Set(s)]: the first occurrence of every element, in order.
Dedup(s) ==
  IF s = <<>> THEN <<>>
  ELSE LET front == Dedup(SubSeq(s, 1, Len(s) - 1))
           last == s[Len(s)]
       IN IF \E i \in DOMAIN front : front[i] = last
            THEN front ELSE Append(front, last)

Abs(x) == IF x < 0 THEN -x ELSE x

\* Mutant: the sum is not divided by the number of runs.
RatUndivided(num, den) == [num |-> num, den |-> 1]

\* The quotient sum / n of a mean, kept exact.
Rat(num, den) == [num |-> num, den |-> den]

\* x.toFixed(1) of the mean sum / n, in tenths (rounded half up).
ToFixed1(sum, n) == (20 * sum + n) \div (2 * n)

RECURSIVE Join(_, _)
\* parts.join(sep)
Join(parts, sep) ==
  IF parts = <<>> THEN <<>>
  ELSE IF Len(parts) = 1 THEN parts[1]
  ELSE parts[1] \o sep \o Join(Tail(parts), sep)

\* The separator aggregateResults joins error messages with.
ErrorSeparator == <<"; ">>

\* Mutant: the comparison is dist <= minDist, so a tie goes to the last run.
RepIdxLastTie(scores) ==
  LET numRuns == Len(scores)
      total == SumSeq([r \in 1..numRuns |-> scores[r].weightedScore])
      dist(r) == Abs(numRuns * scores[r].weightedScore - total)
  IN CHOOSE r \in 1..numRuns :
       /\ \A q \in 1..numRuns : dist(r) <= dist(q)
       /\ \A q \in (r + 1)..numRuns : dist(q) > dist(r)

\* aggregateResults: the index of the representative run, given the scores of
\* one task position in every run.
RepIdx(scores) ==
  LET numRuns == Len(scores)
      total == SumSeq([r \in 1..numRuns |-> scores[r].weightedScore])
      \* |weightedScore - meanWeighted|, times numRuns
      dist(r) == Abs(numRuns * scores[r].weightedScore - total)
  IN CHOOSE r \in 1..numRuns :
       /\ \A q \in 1..numRuns : dist(r) <= dist(q)
       /\ \A q \in 1..(r - 1) : dist(q) > dist(r)

\* Mutant: runs.every instead of runs.some.
EveryErrored(runs) == \A r \in DOMAIN runs : runs[r].isError

\* runs.some((r) => r.isError)
SomeErrored(runs) == \E r \in DOMAIN runs : runs[r].isError

\* aggregateResults, the loop body for task position t (numRuns >= 2).
AggregateTaskResults(allResults, allScores, t) ==
  LET numRuns == Len(allResults)
      runs == [r \in 1..numRuns |-> allResults[r][t]]
      scores == [r \in 1..numRuns |-> allScores[r][t]]
      rep == runs[RepIdx(scores)]
      errored == SelectSeq(runs, LAMBDA x : x.isError)
  IN [taskId |-> rep.taskId,
      output |-> rep.output,
      durationMs |-> SumSeq([r \in 1..numRuns |-> runs[r].durationMs]),
      numTurns |-> SumSeq([r \in 1..numRuns |-> runs[r].numTurns]),
      costUsd |-> SumSeq([r \in 1..numRuns |-> runs[r].costUsd]),
      skillLoads |-> Dedup(ConcatSeq([r \in 1..numRuns |-> runs[r].skillLoads])),
      toolCalls |-> rep.toolCalls,
      isError |-> SomeErrored(runs),
      errorMessage |->
        Join([i \in 1..Len(errored) |-> errored[i].errorMessage],
             ErrorSeparator)]

aggregateResults(allResults, allScores) ==
  LET numRuns == Len(allResults) IN
  IF numRuns = 0 THEN <<>>
  ELSE IF numRuns = 1 THEN allResults[1]
  ELSE [t \in 1..Len(allResults[1]) |->
          AggregateTaskResults(allResults, allScores, t)]

\* catCounts: how many of the categories equal cat.
CountOf(cats, cat) == Cardinality({r \in DOMAIN cats : cats[r] = cat})

\* Mutant: a count equal to the largest so far also replaces the mode, so the
\* last-seen of the tied categories wins.
ModeCategoryLastSeen(cats) ==
  LET modeRun == CHOOSE r \in DOMAIN cats :
                   /\ \A q \in DOMAIN cats : CountOf(cats, cats[q]) <= CountOf(cats, cats[r])
                   /\ \A q \in (r + 1)..Len(cats) :
                        CountOf(cats, cats[q]) = CountOf(cats, cats[r]) => cats[q] = cats[r]
  IN cats[modeRun]

\* "Mode of failure categories": the Map is iterated in insertion order and
\* only a larger count replaces the mode, so the result is the category of the
\* first run whose category has the top count.
ModeCategory(cats) ==
  LET modeRun == CHOOSE r \in DOMAIN cats :
                   /\ \A q \in DOMAIN cats : CountOf(cats, cats[q]) <= CountOf(cats, cats[r])
                   /\ \A q \in 1..(r - 1) : CountOf(cats, cats[q]) < CountOf(cats, cats[r])
  IN cats[modeRun]

\* aggregateScores, the loop body for task position t.
AggregateTaskScores(allScores, t) ==
  LET numRuns == Len(allScores)
      scores == [r \in 1..numRuns |-> allScores[r][t]]
      sumOf(f(_)) == SumSeq([r \in 1..numRuns |-> f(scores[r])])
      sumDiscovery == sumOf(LAMBDA x : x.discovery)
      sumAdherence == sumOf(LAMBDA x : x.adherence)
      sumOutput == sumOf(LAMBDA x : x.outputQuality)
      sumWeighted == sumOf(LAMBDA x : x.weightedScore)
      discoveryCount ==
        Cardinality({r \in 1..numRuns : scores[r].discovery >= 1})
  IN [taskId |-> scores[1].taskId,
      deterministic |-> Null,
      judge |-> Null,
      discovery |-> Rat(sumDiscovery, numRuns),
      adherence |-> Rat(sumAdherence, numRuns),
      outputQuality |-> Rat(sumOutput, numRuns),
      weightedScore |-> Rat(sumWeighted, numRuns),
      failureCategory |->
        ModeCategory([r \in 1..numRuns |-> scores[r].failureCategory]),
      reasoning |->
        <<[src |-> "Aggregated", runs |-> numRuns,
           discoveryCount |-> discoveryCount,
           adherence |-> ToFixed1(sumAdherence, numRuns),
           output |-> ToFixed1(sumOutput, numRuns)]>>]

\* Mutant: the single-run shortcut is missing, so one run is averaged like many.
aggregateScoresAlwaysAverages(allScores) ==
  LET numRuns == Len(allScores) IN
  IF numRuns = 0 THEN <<>>
  ELSE [t \in 1..Len(allScores[1]) |-> AggregateTaskScores(allScores, t)]

aggregateScores(allScores) ==
  LET numRuns == Len(allScores) IN
  IF numRuns = 0 THEN <<>>
  ELSE IF numRuns = 1 THEN allScores[1]
  ELSE [t \in 1..Len(allScores[1]) |-> AggregateTaskScores(allScores, t)]


\* ------------------------------------------------------------------ state

VARIABLES
  pc,        \* where the call stands: "start", "query", "merge", "done", "thrown"
  task,      \* the EvalTask being scored
  result,    \* its TaskResult
  options,   \* the ScorerOptions
  weights,   \* the weights handed to mergeScores
  det,       \* deterministicResult of scoreTask
  judge,     \* judgeResult of scoreTask
  queries,   \* the outcomes of the external queries issued so far
  score,     \* the CombinedScore the call returned
  tasks,     \* evaluation.tasks of scoreAll / runPipeline
  results,   \* the TaskResult[] being scored (the current run's)
  scores,    \* the CombinedScore[] scoreAll has pushed so far
  numRuns,   \* runPipeline: options.numRuns ?? 3
  allResults, \* runPipeline: the results of the finished runs
  allScores, \* runPipeline: the scores of the scored runs
  report,    \* runPipeline: the arguments handed to the report generators
  sources,   \* the configuration sources: eval.config.yaml, EVAL_* variables, overrides
  config,    \* runPipeline: the EvalConfig loadConfig returned
  policy,    \* createToolPolicy: its allowedWriteDirs and cwd
  call,      \* the tool call put to the policy's callback
  decision,  \* the PermissionResult the callback returned
  timeout,   \* runTaskWithTimeout: the effective timeout in ms
  runTaskP,  \* the promise runTask returned: pending, fulfilled or rejected
  timerP,    \* the setTimeout callback: "armed" or "fired"
  winner,    \* which of the two promises Promise.race followed
  marked,    \* the messages handed to logger.markAsError
  settlements, \* how many times runTaskWithTimeout's promise settled
  setupIn,   \* runPipeline: options.skillsDir, the skills/ directory, the runner type
  skillsDir, \* runPipeline: whether skillsDir is set
  skillsSetup, \* runPipeline: the skillsSetup flag
  installed, \* whether <cwd>/.claude/skills exists
  cleanups,  \* how many times cleanupLocalSkills was called
  stage,     \* runPipeline: the statement of the try block that runs next
  completion \* runPipeline: how the try block completed

scoreVars == <<task, result, weights, det, judge, score>>
suiteVars == <<tasks, results, scores>>
pipeVars == <<numRuns, allResults, allScores, report>>
cfgVars == <<sources, config>>
policyVars == <<policy, call, decision>>
raceVars == <<timeout, runTaskP, timerP, winner, marked, settlements>>
setupVars == <<setupIn, skillsDir, skillsSetup, installed, cleanups, stage, completion>>
vars == <<pc, options, queries, scoreVars, suiteVars, pipeVars, cfgVars, policyVars, raceVars, setupVars>>

\* The variables of the configuration loader and of the tool policy while
\* neither is being followed.
NoConfig ==
  /\ sources = Null
  /\ config = Null
NoPolicy ==
  /\ policy = Null
  /\ call = Null
  /\ decision = Null

\* The variables of runTaskWithTimeout and of runPipeline's skill setup while
\* neither is being followed.
NoRace ==
  /\ timeout = 0
  /\ runTaskP = Null
  /\ timerP = "unset"
  /\ winner = "none"
  /\ marked = <<>>
  /\ settlements = 0
NoSetup ==
  /\ setupIn = Null
  /\ skillsDir = FALSE
  /\ skillsSetup = FALSE
  /\ installed = FALSE
  /\ cleanups = 0
  /\ stage = 0
  /\ completion = "none"

\* The variables of scoreAll and runPipeline while neither is running.
NoSuite ==
  /\ tasks = <<>>
  /\ results = <<>>
  /\ scores = <<>>
NoPipeline ==
  /\ numRuns = 0
  /\ allResults = <<>>
  /\ allScores = <<>>
  /\ report = Null

\* The variables of a single scoreTask call while none is being followed.
NoTask ==
  /\ task = Null
  /\ result = Null
  /\ weights = getDefaultWeights
  /\ det = Null
  /\ judge = Null
  /\ score = Null

\* scoreTask is called with a task, its trial and the options; it loads the
\* weights of loadConfigSync() first.
Init ==
  /\ pc = "start"
  /\ task \in Tasks
  /\ result \in Trials(task.id)
  /\ options \in AllOptions
  /\ weights = getDefaultWeights
  /\ det = Null
  /\ judge = Null
  /\ queries = <<>>
  /\ score = Null
  /\ NoSuite
  /\ NoPipeline
  /\ NoConfig
  /\ NoPolicy
  /\ NoRace
  /\ NoSetup

\* scoreTask up to the first suspension: the deterministic check runs, then the
\* judge either is skipped, returns for an errored trial, or issues its query.
Begin ==
  /\ pc = "start"
  /\ det' = RunDeterministic(task, result, options)
  /\ IF JudgeWanted(task, options)
       THEN IF JudgeIssuesQuery(result)
              THEN /\ pc' = "query"
                   /\ judge' = Null
              ELSE /\ pc' = "merge"
                   /\ judge' = judgeResult(task, result, Outcome("failed", NoReply)).value
       ELSE /\ pc' = "merge"
            /\ judge' = Null
  /\ UNCHANGED <<task, result, options, weights, queries, score, suiteVars, pipeVars, cfgVars, policyVars, raceVars, setupVars>>

\* The external query settles (a response text, or a failure) and judgeResult
\* resumes with it.
QuerySettles ==
  /\ pc = "query"
  /\ \E outcome \in QueryOutcomes :
       LET judged == judgeResult(task, result, outcome) IN
       /\ queries' = Append(queries, outcome)
       /\ IF judged.threw
            THEN /\ pc' = "thrown"
                 /\ judge' = Null
            ELSE /\ pc' = "merge"
                 /\ judge' = judged.value
  /\ UNCHANGED <<task, result, options, weights, det, score, suiteVars, pipeVars, cfgVars, policyVars, raceVars, setupVars>>

\* scoreTask merges what it has and resolves.
Merge ==
  /\ pc = "merge"
  /\ score' = mergeScores(task.id, det, judge, weights,
                          task.expectedSkillLoad = "none")
  /\ pc' = "done"
  /\ UNCHANGED <<task, result, options, weights, det, judge, queries, suiteVars, pipeVars, cfgVars, policyVars, raceVars, setupVars>>

Next == Begin \/ QuerySettles \/ Merge

Spec == Init /\ [][Next]_vars

\* ------------------------------------------- mergeScores as a pure function

\* Weight maps a caller can pass: the defaults, and every triple over a coarse
\* grid (most of which do not sum to 1).
WeightGrid == {0, 25, 50, 100}
WeightMaps ==
  {getDefaultWeights} \cup
  {[d \in {"discovery", "adherence", "output"} |->
      CASE d = "discovery" -> wd [] d = "adherence" -> wa [] OTHER -> wo] :
     wd \in WeightGrid, wa \in WeightGrid, wo \in WeightGrid}

\* DeterministicResults the deterministic scorer produces.
MergeDets ==
  {scoreDeterministic(t, r) : t \in Tasks, r \in Trials("t1")} \ {Null}

\* JudgeScores of every grade, in and out of the 1..5 range.
MergeJudges ==
  {JudgeScore("t1", d, a, o, WeightedSum(getDefaultWeights, d, a, o), "none", "r") :
     d \in {0, 1}, a \in {1, 3, 5, 9}, o \in {1, 2, 5, 9}}

InitMerge ==
  /\ pc = "merge"
  /\ task \in {Task("t1", e, <<>>, Null) : e \in ExpectedSkillLoads}
  /\ result = ErroredTrial("t1")
  /\ options = Options(FALSE, FALSE)
  /\ weights \in WeightMaps
  /\ det \in MergeDets \cup {Null}
  /\ judge \in MergeJudges \cup {Null}
  /\ queries = <<>>
  /\ score = Null
  /\ NoSuite
  /\ NoPipeline
  /\ NoConfig
  /\ NoPolicy
  /\ NoRace
  /\ NoSetup

SpecMerge == InitMerge /\ [][Merge]_vars

\* ------------------------------------ scoreDeterministic as a pure function

DetChecks ==
  {Check(a, m, t, n) :
     a \in BOOLEAN, m \in {NoMarker, Marker},
     t \in {<<>>, <<"Skill">>}, n \in {<<>>, <<"mcp__sj__skill">>}}

DetTasks ==
  {Task("t1", e, <<>>, d) : e \in ExpectedSkillLoads, d \in DetChecks \cup {Null}}

InitDet ==
  /\ pc = "start"
  /\ task \in DetTasks
  /\ result \in Trials(task.id)
  /\ options = Options(FALSE, FALSE)
  /\ weights = getDefaultWeights
  /\ det = Null
  /\ judge = Null
  /\ queries = <<>>
  /\ score = Null
  /\ NoSuite
  /\ NoPipeline
  /\ NoConfig
  /\ NoPolicy
  /\ NoRace
  /\ NoSetup

\* A direct call of scoreDeterministic(task, result).
ScoreDeterministicCall ==
  /\ pc = "start"
  /\ det' = scoreDeterministic(task, result)
  /\ pc' = "returned"
  /\ UNCHANGED <<task, result, options, weights, judge, queries, score, suiteVars, pipeVars, cfgVars, policyVars, raceVars, setupVars>>

SpecDet == InitDet /\ [][ScoreDeterministicCall]_vars

\* ------------------------------------------------------------------ scoreAll

\* Longest task list handed to scoreAll.
MaxTasks == 2

TaskIds == <<"t1", "t2", "t3", "t4">>

\* One task of each evaluator configuration, positive and negative.
SuiteChecks == {Null, Check(TRUE, Marker, <<>>, <<>>)}
SuiteTask(i, kind) == Task(TaskIds[i], kind[1], kind[2], kind[3])
SuiteKinds == ExpectedSkillLoads \X CriteriaLists \X SuiteChecks

\* The trials a run can produce for a task: the errored one, one that loaded
\* the expected skill and printed the marker, and one that did neither.
SuiteTrialKinds == {"errored", "loaded", "idle"}
SuiteTrial(i, kind) ==
  CASE kind = "errored" -> [ErroredTrial(TaskIds[i]) EXCEPT !.durationMs = 5]
    [] kind = "loaded" ->
         [Trial(TaskIds[i], <<"O", "K">>, <<"greeting">>,
                <<ToolCall("Skill", Input("greeting", "", ""))>>, FALSE, <<>>)
            EXCEPT !.durationMs = 3, !.costUsd = 2]
    [] OTHER -> Trial(TaskIds[i], <<"h", "i">>, <<>>, <<>>, FALSE, <<>>)

\* What the external query does for the tasks of a suite.
SuiteOutcomes ==
  {Outcome(k, NoReply) : k \in {"failed", "nojson", "malformed"}} \cup
  {Outcome("json", Reply(0, 2, 3, "instruction_ambiguity", "gaps"))}

\* No query is issued for the task (judge skipped, or trial errored).
NoQuery == Outcome("none", NoReply)

\* scoreAll is called with a task list, one result per task, and the options.
InitScoreAll ==
  /\ pc = "scoring"
  /\ \E n \in 0..MaxTasks :
       /\ tasks \in {[i \in 1..n |-> SuiteTask(i, k[i])] : k \in [1..n -> SuiteKinds]}
       /\ results \in {[i \in 1..n |-> SuiteTrial(i, k[i])] :
                         k \in [1..n -> SuiteTrialKinds]}
  /\ scores = <<>>
  /\ options \in AllOptions
  /\ queries = <<>>
  /\ NoTask
  /\ NoPipeline
  /\ NoConfig
  /\ NoPolicy
  /\ NoRace
  /\ NoSetup

\* One iteration of scoreAll's loop: await scoreTask(task, result, options) and
\* push its score; a rejection leaves the loop and rejects scoreAll.
ScoreNextTask ==
  /\ pc = "scoring"
  /\ Len(scores) < Len(tasks)
  /\ LET i == Len(scores) + 1
         asks == JudgeWanted(tasks[i], options) /\ JudgeIssuesQuery(results[i])
     IN \E outcome \in (IF asks THEN SuiteOutcomes ELSE {NoQuery}) :
          LET scored == scoreTask(tasks[i], results[i], options, outcome) IN
          /\ queries' = IF asks THEN Append(queries, outcome) ELSE queries
          /\ IF scored.threw
               THEN /\ pc' = "thrown"
                    /\ scores' = scores
               ELSE /\ pc' = "scoring"
                    /\ scores' = Append(scores, scored.value)
  /\ UNCHANGED <<options, scoreVars, tasks, results, pipeVars, cfgVars, policyVars, raceVars, setupVars>>

\* scoreAll returns its scores.
ScoreAllReturns ==
  /\ pc = "scoring"
  /\ Len(scores) = Len(tasks)
  /\ pc' = "returned"
  /\ UNCHANGED <<options, queries, scoreVars, suiteVars, pipeVars, cfgVars, policyVars, raceVars, setupVars>>

SpecScoreAll == InitScoreAll /\ [][ScoreNextTask \/ ScoreAllReturns]_vars

\* --------------------------------------------------------------- runPipeline

\* Largest numRuns of a pipeline run.
MaxRuns == 2

\* The task files the pipeline is run on.
PipelineSuites ==
  { <<Task("t1", "greeting", CustomCriteria, Check(TRUE, Marker, <<>>, <<>>))>>,
    <<Task("t1", "greeting", <<>>, Check(TRUE, Marker, <<>>, <<>>)),
      Task("t2", "none", CustomCriteria, Check(FALSE, NoMarker, <<>>, <<>>))>> }

\* runPipeline has parsed its tasks and is about to start its runs.
InitPipeline ==
  /\ pc = "run"
  /\ tasks \in PipelineSuites
  /\ options \in {Options(FALSE, FALSE), Options(FALSE, TRUE)}
  /\ numRuns \in 0..MaxRuns
  /\ allResults = <<>>
  /\ allScores = <<>>
  /\ results = <<>>
  /\ scores = <<>>
  /\ report = Null
  /\ queries = <<>>
  /\ NoTask
  /\ NoConfig
  /\ NoPolicy
  /\ NoRace
  /\ NoSetup

\* One pass of the run loop up to scoreAll: runner.runAll yields one TaskResult
\* per task, which is pushed on allResults.
RunAll ==
  /\ pc = "run"
  /\ Len(allResults) < numRuns
  /\ \E kinds \in [1..Len(tasks) -> SuiteTrialKinds] :
       results' = [i \in 1..Len(tasks) |-> SuiteTrial(i, kinds[i])]
  /\ allResults' = Append(allResults, results')
  /\ scores' = <<>>
  /\ pc' = "scoring"
  /\ UNCHANGED <<options, queries, scoreVars, tasks, numRuns, allScores, report, cfgVars, policyVars, raceVars, setupVars>>

\* scoreAll returns to the run loop, which pushes the scores on allScores.
RunScored ==
  /\ pc = "scoring"
  /\ numRuns > 0
  /\ Len(scores) = Len(tasks)
  /\ allScores' = Append(allScores, scores)
  /\ pc' = "run"
  /\ UNCHANGED <<options, queries, scoreVars, suiteVars, numRuns, allResults, report, cfgVars, policyVars, raceVars, setupVars>>

\* Mutant: the aggregation sits inside the run loop and reports after any run.
AggregateAndReportInsideLoop ==
  /\ pc = "run"
  /\ Len(allResults) >= 1
  /\ report' = [results |-> aggregateResults(allResults, allScores),
                scores |-> aggregateScores(allScores),
                numRuns |-> numRuns]
  /\ pc' = "reported"
  /\ UNCHANGED <<options, queries, scoreVars, suiteVars, numRuns, allResults, allScores, cfgVars, policyVars, raceVars, setupVars>>

\* Mutant: the aggregated record is written into the representative run's
\* record instead of a fresh object.
AggregateAndReportInPlace ==
  /\ pc = "run"
  /\ Len(allResults) = numRuns
  /\ report' = [results |-> aggregateResults(allResults, allScores),
                scores |-> aggregateScores(allScores),
                numRuns |-> numRuns]
  /\ allResults' =
       IF numRuns < 2 THEN allResults
       ELSE [r \in 1..numRuns |->
               [t \in 1..Len(allResults[r]) |->
                  IF r = RepIdx([q \in 1..numRuns |-> allScores[q][t]])
                    THEN report'.results[t]
                    ELSE allResults[r][t]]]
  /\ pc' = "reported"
  /\ UNCHANGED <<options, queries, scoreVars, suiteVars, numRuns, allScores, cfgVars, policyVars, raceVars, setupVars>>

\* After the last run: aggregate across runs and hand the aggregates, with
\* numRuns, to the report generators.
AggregateAndReport ==
  /\ pc = "run"
  /\ Len(allResults) = numRuns
  /\ report' = [results |-> aggregateResults(allResults, allScores),
                scores |-> aggregateScores(allScores),
                numRuns |-> numRuns]
  /\ pc' = "reported"
  /\ UNCHANGED <<options, queries, scoreVars, suiteVars, numRuns, allResults, allScores, cfgVars, policyVars, raceVars, setupVars>>

NextPipeline == RunAll \/ ScoreNextTask \/ RunScored \/ AggregateAndReport

SpecPipeline == InitPipeline /\ [][NextPipeline]_vars

\* ------------------------------------------- configuration and the verdict

\* DEFAULT_CONFIG.discoveryThreshold, in hundredths, and
\* DEFAULT_CONFIG.scoreThreshold, in tenths.
DefaultDiscoveryThreshold == 80
DefaultScoreThreshold == 40

ThresholdKeys == {"discoveryThreshold", "scoreThreshold"}

DEFAULT_CONFIG ==
  [discoveryThreshold |-> DefaultDiscoveryThreshold,
   scoreThreshold |-> DefaultScoreThreshold]

\* Partial<EvalConfig>, as far as the thresholds go: a record of the keys that
\* are defined.
PartialConfigs(discoveries, scoreLimits) ==
  {[k \in keys |-> IF k = "discoveryThreshold" THEN d ELSE s] :
     keys \in SUBSET ThresholdKeys, d \in discoveries, s \in scoreLimits}

\* process.env: a variable is unset, holds text that is no number, or a number.
EnvUnset == [kind |-> "unset"]
EnvText == [kind |-> "text"]
EnvNumber(n) == [kind |-> "number", value |-> n]
Envs ==
  [EVAL_DISCOVERY_THRESHOLD : {EnvUnset, EnvText, EnvNumber(100)},
   EVAL_SCORE_THRESHOLD : {EnvUnset, EnvNumber(50)}]

\* loadEnvConfig: parseFloat(process.env.X || ''), kept unless it is NaN.
loadEnvConfig(env) ==
  LET set == {k \in ThresholdKeys :
                IF k = "discoveryThreshold"
                  THEN env.EVAL_DISCOVERY_THRESHOLD.kind = "number"
                  ELSE env.EVAL_SCORE_THRESHOLD.kind = "number"}
  IN [k \in set |-> IF k = "discoveryThreshold"
                      THEN env.EVAL_DISCOVERY_THRESHOLD.value
                      ELSE env.EVAL_SCORE_THRESHOLD.value]

\* mergeConfigs(...configs): start from DEFAULT_CONFIG; every config in turn
\* overwrites the keys it defines.
mergeConfigs(configs) ==
  [k \in ThresholdKeys |->
     LET defining == {i \in DOMAIN configs : k \in DOMAIN configs[i]}
     IN IF defining = {} THEN DEFAULT_CONFIG[k]
        ELSE configs[CHOOSE i \in defining : \A j \in defining : j <= i][k]]

\* loadConfig(configPath, overrides), given what loadConfigFile read.
loadConfig(fileConfig, env, overrides) ==
  mergeConfigs(<<fileConfig, loadEnvConfig(env), overrides>>)

\* loadConfigSync(): "env vars + defaults only, no file", called with no
\* overrides.
loadConfigSync(env) == mergeConfigs(<<loadEnvConfig(env), <<>>>>)

\* The scores a report is generated from, as far as the summary reads them.
SummaryScore(discovery, adherence, outputQuality) ==
  [discovery |-> discovery, adherence |-> adherence,
   outputQuality |-> outputQuality]
SummaryScores ==
  {SummaryScore(1, 5, 5), SummaryScore(0, 5, 5),
   SummaryScore(1, 2, 5), SummaryScore(1, 5, 2)}

\* computeSummary: the totals the averages are the quotients of.
computeSummary(scoreList) ==
  [totalTasks |-> Len(scoreList),
   discoveryCorrect |->
     Cardinality({i \in DOMAIN scoreList : scoreList[i].discovery >= 1}),
   sumAdherence |-> SumSeq([i \in DOMAIN scoreList |-> scoreList[i].adherence]),
   sumOutputQuality |->
     SumSeq([i \in DOMAIN scoreList |-> scoreList[i].outputQuality])]

\* generateJsonResults: passed and failureReasons, for a summary and the
\* configuration whose thresholds it is compared against.
Verdict(summary, cfg) ==
  LET n == summary.totalTasks
      \* discoveryAccuracy >= discoveryThreshold, both sides times 100 * n
      discoveryPassed ==
        IF n > 0 THEN 100 * summary.discoveryCorrect >= cfg.discoveryThreshold * n
                 ELSE 0 >= cfg.discoveryThreshold
      \* avg >= scoreThreshold, both sides times 10 * n
      reaches(sum) ==
        IF n > 0 THEN 10 * sum >= cfg.scoreThreshold * n
                 ELSE 0 >= cfg.scoreThreshold
      adherencePassed == reaches(summary.sumAdherence)
      outputPassed == reaches(summary.sumOutputQuality)
  IN [passed |-> discoveryPassed /\ adherencePassed /\ outputPassed,
      failureReasons |->
        (IF discoveryPassed THEN <<>> ELSE <<"Discovery rate below threshold">>)
        \o (IF adherencePassed THEN <<>> ELSE <<"Avg adherence below threshold">>)
        \o (IF outputPassed THEN <<>>
            ELSE <<"Avg output quality below threshold">>)]

\* generateJsonResults: const config = loadConfigSync().
generateJsonResults(scoreList, env) ==
  Verdict(computeSummary(scoreList), loadConfigSync(env))

\* Longest score list a report is generated from.
MaxReportTasks == 2

\* runPipeline is called: a configuration file, an environment, overrides.
InitVerdict ==
  /\ pc = "configure"
  /\ sources \in [file : PartialConfigs({50}, {30}),
                  env : Envs,
                  overrides : PartialConfigs({50, 100}, {30, 50})]
  /\ config = Null
  /\ scores \in {s \in SeqUpTo(SummaryScores, MaxReportTasks) : Len(s) > 0}
  /\ report = Null
  /\ tasks = <<>>
  /\ results = <<>>
  /\ numRuns = 0
  /\ allResults = <<>>
  /\ allScores = <<>>
  /\ options = Options(FALSE, FALSE)
  /\ queries = <<>>
  /\ NoTask
  /\ NoPolicy
  /\ NoRace
  /\ NoSetup

\* runPipeline: const config = await loadConfig(configPath, configOverrides).
LoadConfig ==
  /\ pc = "configure"
  /\ config' = loadConfig(sources.file, sources.env, sources.overrides)
  /\ pc' = "configured"
  /\ UNCHANGED <<options, queries, scoreVars, suiteVars, pipeVars, sources, policyVars, raceVars, setupVars>>

\* runPipeline: report = await generateJsonResults(...); passed and
\* failureReasons of the PipelineResult are the report's.
GenerateJsonResults ==
  /\ pc = "configured"
  /\ report' = generateJsonResults(scores, sources.env)
  /\ pc' = "verdict"
  /\ UNCHANGED <<options, queries, scoreVars, suiteVars, numRuns, allResults, allScores, cfgVars, policyVars, raceVars, setupVars>>

NextVerdict == LoadConfig \/ GenerateJsonResults

SpecVerdict == InitVerdict /\ [][NextVerdict]_vars

\* --------------------------------------------------------------- tool policy

\* Most entries of allowedWriteDirs.
MaxDirs == 1

\* File and directory names, as character sequences, and the parent segment.
DotDot == <<".", ".">>
SegmentNames == {<<"r">>, <<"r", "x">>, <<"f">>}
Segments == SegmentNames \cup {DotDot}

\* A path string: absolute or relative, then its segments joined with '/'.
\* An empty relative path is ''.
Path(abs, segs) == [abs |-> abs, segs |-> segs]
FilePaths == {Path(a, s) : a \in BOOLEAN, s \in SeqUpTo(Segments, 2)}
DirPaths == {Path(a, s) : a \in BOOLEAN, s \in SeqUpTo(SegmentNames, 1)}

\* process.cwd(): an absolute, normalized directory, as its segments.
Cwds == {<<>>, <<<<"f">>>>}

RECURSIVE Normalize(_, _)
\* path.resolve: the segments are applied left to right to the base; '..' drops
\* the last segment (the root has none to drop).
Normalize(base, segs) ==
  IF segs = <<>> THEN base
  ELSE IF segs[1] = DotDot
    THEN Normalize(IF base = <<>> THEN <<>> ELSE SubSeq(base, 1, Len(base) - 1),
                   Tail(segs))
  ELSE Normalize(Append(base, segs[1]), Tail(segs))

\* path.resolve(cwd, p): the segments of the absolute, normalized path.
Resolve(cwd, p) == Normalize(IF p.abs THEN <<>> ELSE cwd, p.segs)

RECURSIVE PathString(_)
\* The string path.resolve returns: '/' for the root, else '/seg' per segment,
\* with no trailing slash.
PathString(segs) ==
  IF segs = <<>> THEN <<"/">>
  ELSE IF Len(segs) = 1 THEN <<"/">> \o segs[1]
  ELSE PathString(SubSeq(segs, 1, Len(segs) - 1)) \o <<"/">> \o segs[Len(segs)]

\* String.prototype.startsWith
StartsWith(s, prefix) ==
  Len(prefix) <= Len(s) /\ SubSeq(s, 1, Len(prefix)) = prefix

\* The tools an agent calls, and the input of a call (file_path may be absent).
ToolNames == {"Write", "Edit", "Read", "Bash"}
NoFilePath == [absent |-> TRUE]
ToolInputs == {[file_path |-> p] : p \in FilePaths} \cup {NoFilePath}

Allow == [behavior |-> "allow"]
Deny == [behavior |-> "deny"]

\* (input.file_path as string) || ''
FilePathOf(input) ==
  IF "file_path" \in DOMAIN input THEN input.file_path ELSE Path(FALSE, <<>>)

\* The callback createToolPolicy(allowedWriteDirs, cwd) returns, applied to a
\* tool call.
createToolPolicy(allowedWriteDirs, cwd, toolName, input) ==
  LET resolvedDirs ==
        [i \in DOMAIN allowedWriteDirs |-> PathString(Resolve(cwd, allowedWriteDirs[i]))]
      resolvedPath == PathString(Resolve(cwd, FilePathOf(input)))
      isAllowed ==
        \E i \in DOMAIN resolvedDirs : StartsWith(resolvedPath, resolvedDirs[i])
  IN IF toolName \notin {"Write", "Edit"} THEN Allow
     ELSE IF isAllowed THEN Allow
     ELSE Deny

\* A runner builds its policy and the agent is about to call a tool.
InitPolicy ==
  /\ pc = "ask"
  /\ policy \in [allowedWriteDirs : SeqUpTo(DirPaths, MaxDirs), cwd : Cwds]
  /\ call \in [toolName : ToolNames, input : ToolInputs]
  /\ decision = Null
  /\ options = Options(FALSE, FALSE)
  /\ queries = <<>>
  /\ NoTask
  /\ NoSuite
  /\ NoPipeline
  /\ NoConfig
  /\ NoRace
  /\ NoSetup

\* The SDK asks the callback whether the call may run.
CanUseTool ==
  /\ pc = "ask"
  /\ decision' = createToolPolicy(policy.allowedWriteDirs, policy.cwd,
                                  call.toolName, call.input)
  /\ pc' = "answered"
  /\ UNCHANGED <<options, queries, scoreVars, suiteVars, pipeVars, cfgVars, policy, call, raceVars, setupVars>>

SpecPolicy == InitPolicy /\ [][CanUseTool]_vars

\* ---------------------------------------------- aggregation across runs

MaxAggRuns == 3

\* The task whose runs are aggregated: scored by the judge alone, so that a
\* run's weightedScore is the judge's.
AggTask == Task("t1", "greeting", CustomCriteria, Null)

\* What the runs of the task produced: the trials of a suite, and a run that
\* timed out.
AggTrialKinds == SuiteTrialKinds \cup {"timedout"}
AggTrial(kind) ==
  IF kind = "timedout"
    THEN [ErroredTrial("t1") EXCEPT !.durationMs = 7,
                                    !.errorMessage = <<"timed out">>]
    ELSE SuiteTrial(1, kind)

\* What the judge's query did in a run; under the task's weights the replies
\* score 0.9, 0.5 and 0.7.
AggOutcomes ==
  {Outcome("failed", NoReply),
   Outcome("json", Reply(1, 5, 3, "none", "great")),
   Outcome("json", Reply(1, 1, 1, "missing_guidance", "poor")),
   Outcome("json", Reply(1, 3, 2, "none", "fair"))}

\* The run loop of runPipeline is over: every run was executed and scored.
InitAggregate ==
  /\ pc = "run"
  /\ tasks = <<AggTask>>
  /\ options = Options(FALSE, FALSE)
  /\ numRuns \in 0..MaxAggRuns
  /\ \E kinds \in [1..numRuns -> AggTrialKinds],
        outcomes \in [1..numRuns -> AggOutcomes] :
       /\ allResults = [r \in 1..numRuns |-> <<AggTrial(kinds[r])>>]
       /\ allScores =
            [r \in 1..numRuns |->
               <<scoreTask(AggTask, AggTrial(kinds[r]), options,
                           outcomes[r]).value>>]
  /\ results = <<>>
  /\ scores = <<>>
  /\ report = Null
  /\ queries = <<>>
  /\ NoTask
  /\ NoConfig
  /\ NoPolicy
  /\ NoRace
  /\ NoSetup

SpecAggregate == InitAggregate /\ [][AggregateAndReport]_vars

\* ------------------------------------------------- runTaskWithTimeout

DefaultTaskTimeoutMs == 300000

\* An optional number: <<>> is undefined, <<x>> is x.
Undefined == <<>>
Defined(x) == <<x>>

\* a ?? b
Coalesce(a, b) == IF a # Undefined THEN a ELSE b

\* timeoutMs ?? this.options.taskTimeoutMs ?? 300000
EffectiveTimeout(timeoutMs, taskTimeoutMs) ==
  Coalesce(timeoutMs, Coalesce(taskTimeoutMs, Defined(DefaultTaskTimeoutMs)))[1]

\* The timeoutMs argument and the runner's taskTimeoutMs option.
TimeoutArgs == {Undefined, Defined(5)}
TimeoutOptions == {Undefined, Defined(7)}

\* A promise is pending, fulfilled with a value or rejected with a reason.
Pending == [state |-> "pending"]
Fulfilled(value) == [state |-> "fulfilled", value |-> value]
Rejected(reason) == [state |-> "rejected", reason |-> reason]

\* A thrown value: an Error with its message, or anything else with what
\* String() makes of it.
ErrorObject(message) ==
  [instanceofError |-> TRUE, message |-> message,
   string |-> <<"Error: ">> \o message]
ThrownString(text) ==
  [instanceofError |-> FALSE, message |-> Undefined, string |-> text]

\* What runTask can reject with.
RunTaskErrors == {ErrorObject(<<"boom">>), ThrownString(<<"oops">>)}

\* new Error(`Task ${task.id} timed out after ${timeout}ms`)
TimeoutError(evalTask, duration) ==
  ErrorObject(<<"Task ", evalTask.id, " timed out after ",
                ToString(duration), "ms">>)

\* error instanceof Error ? error.message : String(error)
ErrorMessageOf(error) ==
  IF error.instanceofError THEN error.message ELSE error.string

\* The TaskResult the catch block of runTaskWithTimeout returns.
CaughtResult(evalTask, duration, errorMessage) ==
  [taskId |-> evalTask.id, output |-> <<>>, durationMs |-> duration,
   numTurns |-> 0, costUsd |-> 0, skillLoads |-> <<>>, toolCalls |-> <<>>,
   isError |-> TRUE, errorMessage |-> errorMessage]

\* Mutant: there is no catch around the await, so a rejection propagates.
runTaskWithTimeoutNoCatch(evalTask, duration, settled) ==
  IF settled.state = "fulfilled"
    THEN [resolved |-> TRUE, value |-> settled.value, mark |-> <<>>]
    ELSE [resolved |-> FALSE, value |-> Null, mark |-> <<>>]

\* runTaskWithTimeout from the moment Promise.race settles: what its own
\* promise settles with, and what it hands to logger.markAsError.
runTaskWithTimeout(evalTask, duration, settled) ==
  IF settled.state = "fulfilled"
    THEN [resolved |-> TRUE, value |-> settled.value, mark |-> <<>>]
    ELSE LET errorMessage == ErrorMessageOf(settled.reason) IN
         [resolved |-> TRUE,
          value |-> CaughtResult(evalTask, duration, errorMessage),
          mark |-> <<errorMessage>>]

\* The tasks handed to runTaskWithTimeout.
TimeoutTasks ==
  {Task("t1", "greeting", CustomCriteria, Null),
   Task("t2", "none", <<>>, Check(FALSE, NoMarker, <<>>, <<>>))}

\* runTaskWithTimeout has armed its timer, called runTask and awaits the race.
InitTimeout ==
  /\ pc = "awaiting"
  /\ task \in TimeoutTasks
  /\ \E timeoutMs \in TimeoutArgs, taskTimeoutMs \in TimeoutOptions :
       timeout = EffectiveTimeout(timeoutMs, taskTimeoutMs)
  /\ runTaskP = Pending
  /\ timerP = "armed"
  /\ winner = "none"
  /\ marked = <<>>
  /\ settlements = 0
  /\ result = Null
  /\ weights = getDefaultWeights
  /\ det = Null
  /\ judge = Null
  /\ score = Null
  /\ options = Options(FALSE, FALSE)
  /\ queries = <<>>
  /\ NoSuite
  /\ NoPipeline
  /\ NoConfig
  /\ NoPolicy
  /\ NoSetup

\* Promise.race settles with the first of its promises to settle and the
\* awaiting function resumes; a promise that settles later changes nothing.
RaceFollows(who, settled) ==
  IF pc = "awaiting"
    THEN LET done == runTaskWithTimeout(task, timeout, settled) IN
         /\ winner' = who
         /\ settlements' = settlements + 1
         /\ marked' = marked \o done.mark
         /\ pc' = IF done.resolved THEN "resolved" ELSE "rejected"
         /\ result' = IF done.resolved THEN done.value ELSE result
    ELSE UNCHANGED <<pc, result, winner, marked, settlements>>

\* runTask's promise fulfils with the TaskResult of the trial.
RunTaskFulfils ==
  /\ runTaskP = Pending
  /\ \E r \in Trials(task.id) :
       /\ runTaskP' = Fulfilled(r)
       /\ RaceFollows("runTask", Fulfilled(r))
  /\ UNCHANGED <<task, weights, det, judge, score, options, queries, timeout, timerP, suiteVars, pipeVars, cfgVars, policyVars, setupVars>>

\* runTask's promise rejects.
RunTaskRejects ==
  /\ runTaskP = Pending
  /\ \E e \in RunTaskErrors :
       /\ runTaskP' = Rejected(e)
       /\ RaceFollows("runTask", Rejected(e))
  /\ UNCHANGED <<task, weights, det, judge, score, options, queries, timeout, timerP, suiteVars, pipeVars, cfgVars, policyVars, setupVars>>

\* The timer, which is never cleared, fires and rejects timeoutPromise.
TimerFires ==
  /\ timerP = "armed"
  /\ timerP' = "fired"
  /\ RaceFollows("timer", Rejected(TimeoutError(task, timeout)))
  /\ UNCHANGED <<task, weights, det, judge, score, options, queries, timeout, runTaskP, suiteVars, pipeVars, cfgVars, policyVars, setupVars>>

NextTimeout == RunTaskFulfils \/ RunTaskRejects \/ TimerFires

SpecTimeout == InitTimeout /\ [][NextTimeout]_vars

\* ------------------------------------------ runPipeline: local skill setup

RunnerTypes == {"claude-sdk", "vercel-ai", "openai-agents"}

\* What runPipeline is started with: whether options.skillsDir is given, what
\* fs.stat finds at <tasks dir>/skills, and config.runnerType.
SetupInputs ==
  [skillsDirOption : BOOLEAN,
   autoDir : {"directory", "file", "missing"},
   runnerType : RunnerTypes]

\* The statements of the try block, in order, for n runs.
BodyStages(n) ==
  <<"createRunner">> \o
  [i \in 1..(2 * n) |-> IF i % 2 = 1 THEN "runAll" ELSE "scoreAll"] \o
  <<"aggregate", "generateReport", "generateJsonResults", "summary">>

\* runPipeline is called.
InitLifecycle ==
  /\ pc = "parse"
  /\ setupIn \in SetupInputs
  /\ tasks \in {<<>>} \cup PipelineSuites
  /\ numRuns \in 0..MaxRuns
  /\ skillsDir = FALSE
  /\ skillsSetup = FALSE
  /\ installed = FALSE
  /\ cleanups = 0
  /\ stage = 0
  /\ completion = "none"
  /\ allResults = <<>>
  /\ allScores = <<>>
  /\ results = <<>>
  /\ scores = <<>>
  /\ report = Null
  /\ options = Options(FALSE, FALSE)
  /\ queries = <<>>
  /\ NoTask
  /\ NoConfig
  /\ NoPolicy
  /\ NoRace

\* loadConfig or parseEvalFile throws, or no task is left to run.
ParseThrows ==
  /\ pc = "parse"
  /\ completion' = "throw"
  /\ pc' = "thrown"
  /\ UNCHANGED <<options, queries, scoreVars, suiteVars, pipeVars, cfgVars, policyVars, raceVars, setupIn, skillsDir, skillsSetup, installed, cleanups, stage>>

\* The tasks are parsed and there is at least one.
ParseCompletes ==
  /\ pc = "parse"
  /\ tasks # <<>>
  /\ pc' = "detect"
  /\ UNCHANGED <<options, queries, scoreVars, suiteVars, pipeVars, cfgVars, policyVars, raceVars, setupVars>>

\* skillsDir is options.skillsDir or, failing that, the skills/ directory next
\* to the tasks file if fs.stat finds a directory there.
DetectSkillsDir ==
  /\ pc = "detect"
  /\ skillsDir' = (setupIn.skillsDirOption \/ setupIn.autoDir = "directory")
  /\ pc' = "setup"
  /\ UNCHANGED <<options, queries, scoreVars, suiteVars, pipeVars, cfgVars, policyVars, raceVars, setupIn, skillsSetup, installed, cleanups, stage, completion>>

\* if (skillsDir && config.runnerType === 'claude-sdk')
SetupWanted == skillsDir /\ setupIn.runnerType = "claude-sdk"

\* setupLocalSkills returns and skillsSetup is set.
SetupCompletes ==
  /\ pc = "setup"
  /\ SetupWanted
  /\ installed' = TRUE
  /\ skillsSetup' = TRUE
  /\ stage' = 1
  /\ pc' = "body"
  /\ UNCHANGED <<options, queries, scoreVars, suiteVars, pipeVars, cfgVars, policyVars, raceVars, setupIn, skillsDir, cleanups, completion>>

\* setupLocalSkills throws, before or after it created .claude/skills; the
\* error leaves runPipeline ahead of the try block.
SetupThrows ==
  /\ pc = "setup"
  /\ SetupWanted
  /\ installed' \in BOOLEAN
  /\ completion' = "throw"
  /\ pc' = "thrown"
  /\ UNCHANGED <<options, queries, scoreVars, suiteVars, pipeVars, cfgVars, policyVars, raceVars, setupIn, skillsDir, skillsSetup, cleanups, stage>>

\* No skills directory, or a runner that discovers skills by itself.
SetupSkipped ==
  /\ pc = "setup"
  /\ ~SetupWanted
  /\ stage' = 1
  /\ pc' = "body"
  /\ UNCHANGED <<options, queries, scoreVars, suiteVars, pipeVars, cfgVars, policyVars, raceVars, setupIn, skillsDir, skillsSetup, installed, cleanups, completion>>

\* The next statement of the try block completes; after the last one the
\* block returns.
StageCompletes ==
  /\ pc = "body"
  /\ IF stage < Len(BodyStages(numRuns))
       THEN /\ stage' = stage + 1
            /\ UNCHANGED <<pc, completion>>
       ELSE /\ completion' = "return"
            /\ pc' = "finally"
            /\ stage' = stage
  /\ UNCHANGED <<options, queries, scoreVars, suiteVars, pipeVars, cfgVars, policyVars, raceVars, setupIn, skillsDir, skillsSetup, installed, cleanups>>

\* The next statement of the try block throws.
StageThrows ==
  /\ pc = "body"
  /\ completion' = "throw"
  /\ pc' = "finally"
  /\ UNCHANGED <<options, queries, scoreVars, suiteVars, pipeVars, cfgVars, policyVars, raceVars, setupIn, skillsDir, skillsSetup, installed, cleanups, stage>>

\* Mutant: the cleanup is the last statement of the try block, not a finally.
CleanupAtEndOfTry ==
  /\ pc = "finally"
  /\ IF skillsSetup /\ completion = "return"
       THEN /\ cleanups' = cleanups + 1
            /\ \E removed \in BOOLEAN :
                 installed' = IF removed THEN FALSE ELSE installed
       ELSE UNCHANGED <<cleanups, installed>>
  /\ pc' = IF completion = "return" THEN "returned" ELSE "thrown"
  /\ UNCHANGED <<options, queries, scoreVars, suiteVars, pipeVars, cfgVars, policyVars, raceVars, setupIn, skillsDir, skillsSetup, stage, completion>>

\* The finally block: cleanupLocalSkills if skillsSetup (its fs.rm may fail,
\* which it ignores), then the try block's return or throw takes effect.
Finally ==
  /\ pc = "finally"
  /\ IF skillsSetup
       THEN /\ cleanups' = cleanups + 1
            /\ \E removed \in BOOLEAN :
                 installed' = IF removed THEN FALSE ELSE installed
       ELSE UNCHANGED <<cleanups, installed>>
  /\ pc' = IF completion = "return" THEN "returned" ELSE "thrown"
  /\ UNCHANGED <<options, queries, scoreVars, suiteVars, pipeVars, cfgVars, policyVars, raceVars, setupIn, skillsDir, skillsSetup, stage, completion>>

NextLifecycle ==
  \/ ParseThrows
  \/ ParseCompletes
  \/ DetectSkillsDir
  \/ SetupCompletes
  \/ SetupThrows
  \/ SetupSkipped
  \/ StageCompletes
  \/ StageThrows
  \/ Finally

SpecLifecycle == InitLifecycle /\ [][NextLifecycle]_vars

\* ------------------------------------------------------------------ claims

\* The trial records an activation of skill `name`: a skill-tool call that
\* carries it, or an entry of skillLoads.
RecordsActivationOf(trial, name) ==
  \/ \E i \in DOMAIN trial.toolCalls :
       /\ isSkillTool(trial.toolCalls[i].tool)
       /\ extractSkillName(trial.toolCalls[i].input) = name
  \/ \E i \in DOMAIN trial.skillLoads : trial.skillLoads[i] = name

\* The trial records some activation: a skill-tool call with a name, or a
\* non-empty skillLoads.
RecordsAnyActivation(trial) ==
  \/ \E i \in DOMAIN trial.toolCalls :
       /\ isSkillTool(trial.toolCalls[i].tool)
       /\ extractSkillName(trial.toolCalls[i].input) # ""
  \/ Len(trial.skillLoads) > 0

\* The task's deterministic spec and its expectedSkillLoad agree on whether the
\* test is negative (as in every task of the README and of the examples).
ConsistentTask(t) ==
  t.deterministic # Null =>
    (t.deterministic.expectSkillActivation <=> t.expectedSkillLoad # "none")

\* C1: every errored trial is scored discovery 0, adherence 1, outputQuality 1,
\* weightedScore 0 and failureCategory agent_error, whichever evaluators ran and
\* whether the test is positive or negative.
C1_ErroredTrialGetsAgentError ==
  (pc = "done" /\ result.isError /\ ConsistentTask(task)) =>
    /\ score.discovery = 0
    /\ score.adherence = 1
    /\ score.outputQuality = 1
    /\ score.weightedScore = 0
    /\ score.failureCategory = "agent_error"

\* C2: on a positive test scored with a deterministic result, discovery is 1
\* exactly when the trial records an activation of the expected skill, wherever
\* that activation stands among the tool calls and skillLoads.
C2_DiscoveryIffExpectedSkillRecorded ==
  ( /\ pc = "done"
    /\ score.deterministic # Null
    /\ task.expectedSkillLoad # "none"
    /\ ConsistentTask(task)
    /\ ~result.isError ) =>
    (score.discovery = 1 <=> RecordsActivationOf(result, task.expectedSkillLoad))

\* C3: on a negative test scored with a deterministic result, discovery is 1
\* exactly when the trial records no activation, and a recorded activation gives
\* discovery 0 with failureCategory false_positive.
C3_NegativeTestDiscovery ==
  (pc = "done" /\ score.deterministic # Null /\ task.expectedSkillLoad = "none") =>
    /\ score.discovery = 1 <=> ~RecordsAnyActivation(result)
    /\ RecordsAnyActivation(result) =>
         (score.discovery = 0 /\ score.failureCategory = "false_positive")

\* C4: whenever at least one evaluator produced a value, the weightedScore of the
\* CombinedScore is the weighted sum of its own discovery, adherence and
\* outputQuality under the weights passed to mergeScores.
C4_WeightedScoreIsFormula ==
  (pc = "done" /\ (score.deterministic # Null \/ score.judge # Null)) =>
    score.weightedScore =
      4 * weights["discovery"] * score.discovery
      + weights["adherence"] * (score.adherence - 1)
      + weights["output"] * (score.outputQuality - 1)

\* C5: with grades in 1..5, discovery 0 or 1 and non-negative weights that sum to
\* 1, the weightedScore mergeScores computes lies in [0, 1] (0..400 here).
C5_WeightedScoreInUnitInterval ==
  ( /\ pc = "done"
    /\ (score.deterministic # Null \/ score.judge = Null)
    /\ score.discovery \in {0, 1}
    /\ score.adherence \in 1..5
    /\ score.outputQuality \in 1..5
    /\ \A d \in DOMAIN weights : weights[d] >= 0
    /\ weights["discovery"] + weights["adherence"] + weights["output"] = 100 )
  => (0 <= score.weightedScore /\ score.weightedScore <= 400)

\* C5 witness: a merge of both evaluators under non-default weights that sum to
\* 1 reaches the top of the range.
C5_Witness ==
  /\ pc = "done"
  /\ score.deterministic # Null
  /\ score.judge # Null
  /\ weights # getDefaultWeights
  /\ \A d \in DOMAIN weights : weights[d] > 0
  /\ weights["discovery"] + weights["adherence"] + weights["output"] = 100
  /\ score.adherence = 5
  /\ score.outputQuality = 5
  /\ score.discovery = 1
  /\ score.weightedScore = 400

\* C6: a deterministic-only merge grades adherence and outputQuality 5 exactly
\* when det.passed and 1 exactly when not; a trial that activated the expected
\* skill but missed the marker has discovery 1 with both grades 1.
C6_DeterministicOnlyGrades ==
  (pc = "done" /\ score.deterministic # Null /\ score.judge = Null) =>
    /\ (score.adherence = 5 /\ score.outputQuality = 5) <=> score.deterministic.passed
    /\ (score.adherence = 1 /\ score.outputQuality = 1) <=> ~score.deterministic.passed
    /\ ( /\ task.expectedSkillLoad # "none"
         /\ score.deterministic.skillActivated
         /\ score.deterministic.skillName = task.expectedSkillLoad
         /\ score.deterministic.markerFound = False )
       => (score.discovery = 1 /\ score.adherence = 1 /\ score.outputQuality = 1)

\* C6 witness: the expected skill was activated, the marker is missing, and the
\* deterministic-only score has discovery 1 and grades 1.
C6_Witness ==
  /\ pc = "done"
  /\ score.deterministic # Null
  /\ score.judge = Null
  /\ task.expectedSkillLoad = "greeting"
  /\ task.deterministic.expectSkillActivation
  /\ score.deterministic.skillActivated
  /\ score.deterministic.skillName = "greeting"
  /\ score.deterministic.markerFound = False
  /\ ~score.deterministic.passed
  /\ score.discovery = 1
  /\ score.adherence = 1

\* C7: with neither a DeterministicResult nor a JudgeScore, mergeScores returns
\* the sentinel score: agent_error, discovery 0, grades 1, weightedScore 0.
C7_NoEvaluatorSentinel ==
  (pc = "done" /\ det = Null /\ judge = Null) =>
    /\ score # Null
    /\ score.failureCategory = "agent_error"
    /\ score.discovery = 0
    /\ score.adherence = 1
    /\ score.outputQuality = 1
    /\ score.weightedScore = 0
    /\ score.deterministic = Null
    /\ score.judge = Null

\* C7 witness: a trial that ran without error, for a task with neither a
\* deterministic spec nor criteria, has been merged.
C7_Witness ==
  /\ pc = "done"
  /\ det = Null
  /\ judge = Null
  /\ ~result.isError
  /\ RecordsAnyActivation(result)
  /\ task.deterministic = Null
  /\ task.criteria = <<>>
  /\ score.failureCategory = "agent_error"

\* C9: scoreDeterministic returns null exactly when the task has no
\* deterministic spec; with a spec it returns a result, errored trial or not.
C9_NullIffNoSpec ==
  pc = "returned" => (det = Null <=> task.deterministic = Null)

\* C9 witness: an errored trial of a task with a spec got a (failed) result.
C9_Witness ==
  /\ pc = "returned"
  /\ result.isError
  /\ task.deterministic # Null
  /\ det # Null
  /\ ~det.passed

\* C8: scoreAll never throws and returns exactly one non-null CombinedScore per
\* task, in task order (scores[i].taskId = tasks[i].id), whatever the
\* deterministic-spec presence, criteria presence, noDeterministic/noJudge flags,
\* trial error state and judge outcome (parsed reply, no JSON object, malformed
\* JSON, failed call); and in each of those outcomes judgeResult returns a
\* JudgeScore instead of raising.
C8_ScoreAllOneScorePerTask ==
  /\ pc # "thrown"
  /\ Len(scores) <= Len(tasks)
  /\ pc = "returned" => Len(scores) = Len(tasks)
  /\ \A i \in DOMAIN scores :
       /\ scores[i] # Null
       /\ scores[i].taskId = tasks[i].id
       /\ JudgeWanted(tasks[i], options) => scores[i].judge # Null
  /\ \A i \in DOMAIN tasks : \A outcome \in SuiteOutcomes :
       LET judged == judgeResult(tasks[i], results[i], outcome) IN
       /\ ~judged.threw
       /\ judged.value # Null
       /\ judged.value.taskId = tasks[i].id

\* scoreAll has returned for two tasks whose judge calls failed and replied
\* with malformed JSON.
C8_Witness ==
  /\ pc = "returned"
  /\ Len(tasks) = 2
  /\ Len(scores) = 2
  /\ Len(queries) = 2
  /\ queries[1].kind = "failed"
  /\ queries[2].kind = "malformed"
  /\ scores[1].judge # Null
  /\ scores[2].judge # Null

\* C10: aggregation over a single run is the identity: aggregateScores returns
\* the sole run's CombinedScore for each task with every field unchanged,
\* aggregateResults returns the sole run's TaskResults unchanged, and they reach
\* the report tagged with the trial count 1.
C10_SingleRunAggregationIsIdentity ==
  (pc = "reported" /\ numRuns = 1) =>
    /\ report.numRuns = 1
    /\ report.results = allResults[1]
    /\ Len(report.scores) = Len(allScores[1])
    /\ \A t \in DOMAIN report.scores :
         LET agg == report.scores[t]
             sole == allScores[1][t]
         IN /\ agg.taskId = sole.taskId
            /\ agg.deterministic = sole.deterministic
            /\ agg.judge = sole.judge
            /\ agg.failureCategory = sole.failureCategory
            /\ agg.reasoning = sole.reasoning
            /\ agg.discovery = sole.discovery
            /\ agg.adherence = sole.adherence
            /\ agg.outputQuality = sole.outputQuality
            /\ agg.weightedScore = sole.weightedScore

\* A single run of two tasks was scored by both evaluators and reported.
C10_Witness ==
  /\ pc = "reported"
  /\ numRuns = 1
  /\ Len(allScores) = 1
  /\ Len(report.scores) = 2
  /\ report.scores[1].deterministic # Null
  /\ report.scores[2].judge # Null
  /\ report.results[1].isError
  /\ ~report.results[2].isError

\* C11: for N >= 2 runs, the discovery, adherence, outputQuality and
\* weightedScore of each aggregated task score are the arithmetic means of that
\* field over the N per-run scores of the same task position.
C11_AggregatedFieldsAreMeans ==
  (pc = "reported" /\ numRuns >= 2) =>
    /\ Len(report.scores) = Len(tasks)
    /\ \A t \in DOMAIN report.scores :
         \A f \in {"discovery", "adherence", "outputQuality", "weightedScore"} :
           LET total[r \in 0..numRuns] ==
                 IF r = 0 THEN 0 ELSE total[r - 1] + allScores[r][t][f]
           IN /\ report.scores[t][f].den = numRuns
              /\ report.scores[t][f].num = total[numRuns]

\* Two runs that differ in every averaged field of the first task.
C11_Witness ==
  /\ pc = "reported"
  /\ numRuns >= 2
  /\ allScores[1][1].discovery # allScores[2][1].discovery
  /\ allScores[1][1].adherence # allScores[2][1].adherence
  /\ allScores[1][1].weightedScore # allScores[2][1].weightedScore
  /\ report.scores[1].adherence.num > report.scores[1].adherence.den

C13_VerdictUsesEffectiveConfig ==
  (pc = "verdict") =>
    LET effective ==
          [k \in ThresholdKeys |->
             IF k \in DOMAIN sources.overrides THEN sources.overrides[k]
             ELSE IF k \in DOMAIN loadEnvConfig(sources.env)
               THEN loadEnvConfig(sources.env)[k]
             ELSE IF k \in DOMAIN sources.file THEN sources.file[k]
             ELSE DEFAULT_CONFIG[k]]
        expected == Verdict(computeSummary(scores), effective)
    IN /\ config = effective
       /\ report.passed = expected.passed
       /\ report.failureReasons = expected.failureReasons

\* C14: the tool policy allows a Write or Edit call only when its resolved file
\* path lies inside one of the allowed write directories (resolved against
\* cwd), denies it otherwise, and allows every other tool; with an empty allowed
\* list every Write/Edit is denied.
C14_WritesOnlyInsideAllowedDirs ==
  (pc = "answered") =>
    LET target == Resolve(policy.cwd, FilePathOf(call.input))
        inside(dir) ==
          LET d == Resolve(policy.cwd, dir)
          IN Len(d) <= Len(target) /\ SubSeq(target, 1, Len(d)) = d
        insideAllowed ==
          \E i \in DOMAIN policy.allowedWriteDirs : inside(policy.allowedWriteDirs[i])
    IN IF call.toolName \in {"Write", "Edit"}
         THEN /\ decision.behavior = "allow" <=> insideAllowed
              /\ decision.behavior = "deny" <=> ~insideAllowed
              /\ policy.allowedWriteDirs = <<>> => decision.behavior = "deny"
         ELSE decision.behavior = "allow"

\* C15: when a DeterministicResult is present, the merged discovery is derived
\* from det.skillActivated alone (inverted on negative tests) and the judge's
\* discovery is ignored even when it disagrees; when none is present, the merged
\* discovery is judge.discovery.
C15_DeterministicDiscoveryIsAuthoritative ==
  (pc = "done") =>
    /\ det # Null =>
         score.discovery =
           IF task.expectedSkillLoad = "none"
             THEN (IF det.skillActivated THEN 0 ELSE 1)
             ELSE (IF det.skillActivated THEN 1 ELSE 0)
    /\ (det = Null /\ judge # Null) => score.discovery = judge.discovery

\* Both evaluators are present and the judge's discovery disagrees with the
\* deterministic evidence, on a positive and on a negative test.
C15_Witness ==
  /\ pc = "done"
  /\ det # Null
  /\ judge # Null
  /\ det.skillActivated
  /\ task.expectedSkillLoad = "none"
  /\ judge.discovery = 1
  /\ score.discovery = 0

\* C16: on a positive test with a DeterministicResult present, whenever the
\* expected activation did not occur (no skill activated, or a different skill
\* activated), the merged failureCategory is 'discovery_failure', with a judge
\* score present and in a deterministic-only merge alike.
C16_MissedActivationIsDiscoveryFailure ==
  ( /\ pc = "done"
    /\ score.deterministic # Null
    /\ ConsistentTask(task)
    /\ task.expectedSkillLoad # "none"
    /\ task.deterministic.expectMarker = NoMarker
    /\ ~result.isError
    /\ ~score.deterministic.skillActivated )
  => score.failureCategory = "discovery_failure"

\* C17: the deterministic evidence overrides the merged failureCategory to
\* 'false_positive' exactly when the deterministic check itself recorded an
\* unexpected activation on a negative test; marker text, tool names or skill
\* names appearing in the details cannot cause the override.
C17_FalsePositiveOnlyFromUnexpectedActivation ==
  (pc = "done" /\ score.deterministic # Null /\ ~result.isError) =>
    LET recorded ==
          /\ ~task.deterministic.expectSkillActivation
          /\ score.deterministic.skillActivated
    IN score.failureCategory = "false_positive" <=> recorded

\* C18: the passed flag of scoreDeterministic is, on a positive test, the
\* conjunction of correct activation with every specified (non-null) sub-check;
\* on a negative test it is exactly NOT activated, and the marker, required-tool
\* and forbidden-tool sub-checks are not evaluated there: they remain null.
C18_PassedAndNegativeSubChecks ==
  (pc = "returned" /\ det # Null /\ ConsistentTask(task) /\ ~result.isError) =>
    IF task.deterministic.expectSkillActivation
      THEN det.passed <=>
             /\ det.skillActivated
             /\ det.markerFound # "null" => det.markerFound = "true"
             /\ det.expectedToolsCalled # "null" => det.expectedToolsCalled = "true"
             /\ det.unexpectedToolsCalled # "null" => det.unexpectedToolsCalled = "false"
      ELSE /\ det.passed <=> ~det.skillActivated
           /\ det.markerFound = "null"
           /\ det.expectedToolsCalled = "null"
           /\ det.unexpectedToolsCalled = "null"

\* C19: for a trial with isError = true, judgeResult returns the fixed minimal
\* assessment (discovery 0, adherence 1, outputQuality 1, failureCategory
\* 'agent_error') and no external model call is ever issued for that trial.
C19_ErroredTrialIsNeverJudgedExternally ==
  result.isError =>
    /\ queries = <<>>
    /\ pc # "query"
    /\ (pc \in {"merge", "done"} /\ JudgeWanted(task, options)) =>
         /\ judge # Null
         /\ judge.discovery = 0
         /\ judge.adherence = 1
         /\ judge.outputQuality = 1
         /\ judge.failureCategory = "agent_error"

\* The judge was configured, the trial errored, and scoreTask finished without
\* any query.
C19_Witness ==
  /\ pc = "done"
  /\ result.isError
  /\ JudgeWanted(task, options)
  /\ score.judge # Null
  /\ score.judge.failureCategory = "agent_error"
  /\ queries = <<>>

\* C20: for a non-errored trial judgeResult issues exactly one external model
\* call; a failed call is never retried and the result is the local heuristic
\* computed from the trial's own evidence.
C20_OneCallThenHeuristic ==
  ~result.isError =>
    /\ Len(queries) <= 1
    /\ ~JudgeWanted(task, options) => queries = <<>>
    /\ (pc \in {"merge", "done"} /\ JudgeWanted(task, options)) =>
         /\ Len(queries) = 1
         /\ judge # Null
         /\ queries[1].kind = "failed" =>
              LET loaded == \E i \in DOMAIN result.skillLoads :
                              result.skillLoads[i] = task.expectedSkillLoad
              IN /\ judge.discovery = IF loaded THEN 1 ELSE 0
                 /\ judge.adherence = 3
                 /\ judge.outputQuality = 3
                 /\ judge.failureCategory =
                      IF loaded THEN "none" ELSE "discovery_failure"

\* The single call failed and the heuristic found the expected skill among the
\* trial's skill loads.
C20_Witness ==
  /\ pc = "done"
  /\ ~result.isError
  /\ Len(queries) = 1
  /\ queries[1].kind = "failed"
  /\ score.judge # Null
  /\ score.judge.discovery = 1
  /\ score.judge.adherence = 3

\* C21: when the external judge call fails, the heuristic fallback has
\* discovery = 1 if the trial's skillLoads contains the expected skill or, on a
\* negative test (expected 'none'), if skillLoads is empty, and 0 otherwise;
\* adherence = outputQuality = 3; failureCategory is 'discovery_failure' iff
\* discovery = 0, else 'none'.
C21_HeuristicDiscoveryHonoursNegativeTests ==
  ( /\ pc \in {"merge", "done"}
    /\ ~result.isError
    /\ Len(queries) = 1
    /\ queries[1].kind = "failed" ) =>
    LET loaded == \E i \in DOMAIN result.skillLoads :
                    result.skillLoads[i] = task.expectedSkillLoad
        quiet == task.expectedSkillLoad = "none" /\ result.skillLoads = <<>>
        discovery == IF loaded \/ quiet THEN 1 ELSE 0
    IN /\ judge # Null
       /\ judge.discovery = discovery
       /\ judge.adherence = 3
       /\ judge.outputQuality = 3
       /\ judge.failureCategory =
            IF discovery = 0 THEN "discovery_failure" ELSE "none"

\* C22 (as stated): when the judge's reply holds no well-formed JSON object or
\* its JSON fails to parse, the assessment is the fixed fallback discovery 0,
\* adherence 1, outputQuality 1, failureCategory 'agent_error', reasoning
\* 'parse failure', returned as a value.
C22_ParseFailureReasoningIsParseFailure ==
  ( /\ Len(queries) = 1
    /\ queries[1].kind \in {"nojson", "malformed"} ) =>
    /\ pc \in {"merge", "done"}
    /\ judge # Null
    /\ judge.reasoning = "parse failure"
    /\ judge.discovery = 0
    /\ judge.adherence = 1
    /\ judge.outputQuality = 1
    /\ judge.failureCategory = "agent_error"

\* C22 (amended): when the judge's reply holds no {...} match or the match
\* fails to parse, the assessment is the fixed fallback discovery 0, adherence
\* 1, outputQuality 1, weightedScore 0, failureCategory 'agent_error', returned
\* as a value; its reasoning is 'Failed to parse judge response' when nothing
\* matches and 'Invalid JSON in judge response' when JSON.parse rejects the
\* match.
C22_ParseFailureIsFixedFallback ==
  ( /\ Len(queries) = 1
    /\ queries[1].kind \in {"nojson", "malformed"} ) =>
    /\ pc \in {"merge", "done"}
    /\ judge # Null
    /\ judge.reasoning =
         IF queries[1].kind = "nojson"
           THEN "Failed to parse judge response"
           ELSE "Invalid JSON in judge response"
    /\ judge.discovery = 0
    /\ judge.adherence = 1
    /\ judge.outputQuality = 1
    /\ judge.weightedScore = 0
    /\ judge.failureCategory = "agent_error"

\* The reply matched {...} but JSON.parse rejected it, and scoreTask finished
\* with the fallback assessment.
C22_Witness ==
  /\ pc = "done"
  /\ Len(queries) = 1
  /\ queries[1].kind = "malformed"
  /\ score.judge # Null
  /\ score.judge.failureCategory = "agent_error"
  /\ score.judge.reasoning = "Invalid JSON in judge response"

FailureCategories ==
  {"discovery_failure", "false_positive", "instruction_ambiguity",
   "missing_guidance", "agent_error", "none"}

\* C23: every JudgeScore the judge produces, for any model reply, is
\* well-formed: discovery is 0 or 1, adherence and outputQuality are in 1..5,
\* and failureCategory is one of the six values of the closed enum, an
\* unrecognized category from the model being coerced to the default.
C23_JudgeScoreIsWellFormed ==
  (pc \in {"merge", "done"} /\ judge # Null) =>
    /\ judge.failureCategory \in FailureCategories
    /\ judge.discovery \in {0, 1}
    /\ judge.adherence \in 1..5
    /\ judge.outputQuality \in 1..5

\* The weightedScores of task position t over the runs, in run order.
WeightedScoresOf(t) == [r \in 1..Len(allScores) |-> allScores[r][t].weightedScore]

\* Run r of task position t is the one closest to the mean weightedScore, the
\* lowest such index on a tie (distances are compared times the number of
\* runs).
IsRepresentative(r, t) ==
  LET ws == WeightedScoresOf(t)
      n == Len(ws)
      dist(q) == Abs(n * ws[q] - SumSeq(ws))
  IN /\ \A q \in 1..n : dist(r) <= dist(q)
     /\ \A q \in 1..(r - 1) : dist(q) # dist(r)

RECURSIVE TotalOfRuns(_, _, _)
\* metric(run 1) + ... + metric(run n) of task position t, counted from the
\* last run down.
TotalOfRuns(metric(_), t, n) ==
  IF n = 0 THEN 0 ELSE TotalOfRuns(metric, t, n - 1) + metric(allResults[n][t])

\* C25: for N >= 2 runs the aggregated record's durationMs, numTurns and
\* costUsd are each the sum of that metric over all N runs of the task.
C25_MetricsAreSums ==
  (pc = "reported" /\ numRuns >= 2) =>
    \A t \in DOMAIN report.results :
      LET rec == report.results[t]
          Duration(x) == x.durationMs
          Turns(x) == x.numTurns
          Cost(x) == x.costUsd
      IN /\ rec.durationMs = TotalOfRuns(Duration, t, numRuns)
         /\ rec.numTurns = TotalOfRuns(Turns, t, numRuns)
         /\ rec.costUsd = TotalOfRuns(Cost, t, numRuns)

\* Three runs of 3 ms, 5 ms and 7 ms: the aggregated record has 15 ms, which is
\* no single run's duration.
C25_Witness ==
  /\ pc = "reported"
  /\ numRuns = 3
  /\ [r \in 1..3 |-> allResults[r][1].durationMs] = <<3, 5, 7>>
  /\ report.results[1].durationMs = 15
  /\ report.results[1].costUsd = 2

\* C26: for N >= 2 runs the aggregated record is flagged isError if and only
\* if at least one of the N runs is errored, and its errorMessage is the
\* concatenation of the error messages of all N runs (the code puts '; '
\* between two messages).
C26_ErrorIsAnyAndMessagesConcatenated ==
  (pc = "reported" /\ numRuns >= 2) =>
    \A t \in DOMAIN report.results :
      LET rec == report.results[t]
          messages == [r \in 1..numRuns |-> allResults[r][t].errorMessage]
          text == SelectSeq(rec.errorMessage, LAMBDA x : <<x>> # ErrorSeparator)
      IN /\ text = ConcatSeq(messages)
         /\ rec.isError <=> \E r \in 1..numRuns : allResults[r][t].isError

\* One run of three succeeded and two failed with different messages; the
\* aggregated record is errored and carries both messages in run order.
C26_Witness ==
  /\ pc = "reported"
  /\ numRuns = 3
  /\ ~allResults[2][1].isError
  /\ report.results[1].isError
  /\ report.results[1].errorMessage = <<"timed out", "; ", "boom">>

\* Entry t of run r in allScores is the score scoreTask gives entry t of run r
\* in allResults, for the task in position t.
ScoredInPlace(r, t) ==
  /\ allResults[r][t].taskId = tasks[t].id
  /\ allScores[r][t].taskId = tasks[t].id
  /\ \E outcome \in SuiteOutcomes \cup {NoQuery} :
       LET scored == scoreTask(tasks[t], allResults[r][t], options, outcome)
       IN ~scored.threw /\ scored.value = allScores[r][t]

\* C27: runPipeline invokes the aggregator only after every one of the numRuns
\* runs has been executed and scored: at that moment allResults and allScores
\* each hold exactly numRuns entries, one per run in run order, each with one
\* entry per task, and nothing is aggregated between runs.
C27_AggregatesOnlyCompleteRuns ==
  /\ report # Null =>
       /\ pc = "reported"
       /\ Len(allResults) = numRuns
       /\ Len(allScores) = numRuns
       /\ \A r \in 1..numRuns :
            /\ Len(allResults[r]) = Len(tasks)
            /\ Len(allScores[r]) = Len(tasks)
            /\ \A t \in 1..Len(tasks) : ScoredInPlace(r, t)
  /\ pc = "run" => Len(allScores) = Len(allResults)
  /\ pc = "scoring" =>
       /\ Len(allScores) + 1 = Len(allResults)
       /\ results = allResults[Len(allResults)]

\* Two runs of a two-task suite, the first with an errored first task and the
\* second without, were executed, scored and then aggregated.
C27_Witness ==
  /\ pc = "reported"
  /\ numRuns = 2
  /\ Len(tasks) = 2
  /\ Len(allScores) = 2
  /\ allResults[1][1].isError
  /\ ~allResults[2][1].isError
  /\ report.numRuns = 2

\* C28: scoreDeterministic, mergeScores, aggregateResults and aggregateScores
\* never modify their inputs: whatever is called, the tasks, the trial records
\* of the run being scored and of every earlier run, and the per-run
\* CombinedScores already produced stay as they were.
C28_InputsAreNeverModified ==
  [][ /\ tasks' = tasks
      /\ \A r \in DOMAIN allResults :
           r \in DOMAIN allResults' /\ allResults'[r] = allResults[r]
      /\ \A r \in DOMAIN allScores :
           r \in DOMAIN allScores' /\ allScores'[r] = allScores[r]
      /\ pc = "scoring" =>
           /\ results' = results
           /\ \A i \in DOMAIN scores :
                i \in DOMAIN scores' /\ scores'[i] = scores[i] ]_vars

\* Both scorers ran on the trials of two runs (a deterministic result was
\* merged) and the aggregators produced a record that differs from each run's.
C28_Witness ==
  /\ pc = "reported"
  /\ numRuns = 2
  /\ allScores[1][1].deterministic # Null
  /\ report.results[1].durationMs # allResults[1][1].durationMs
  /\ report.results[1].durationMs # allResults[2][1].durationMs
  /\ report.scores[1].deterministic = Null

\* C29: runTaskWithTimeout never rejects and resolves exactly once whatever
\* the order in which runTask and the timer settle: if runTask fulfils first
\* the result is its TaskResult unchanged; if the timer fires first or runTask
\* rejects, the result is an errored TaskResult (isError, empty output,
\* toolCalls and skillLoads, durationMs = the timeout), and a runTask result
\* that arrives later is discarded.
C29_TimeoutRaceResolvesOnce ==
  /\ pc \in {"awaiting", "resolved"}
  /\ settlements = IF pc = "resolved" THEN 1 ELSE 0
  /\ (runTaskP # Pending \/ timerP = "fired") => pc = "resolved"
  /\ pc = "resolved" =>
       /\ winner \in {"runTask", "timer"}
       /\ (winner = "runTask" /\ runTaskP.state = "fulfilled") =>
            result = runTaskP.value
       /\ (winner = "timer" \/ runTaskP.state = "rejected") =>
            /\ result.isError
            /\ result.output = <<>>
            /\ result.toolCalls = <<>>
            /\ result.skillLoads = <<>>
            /\ result.durationMs = timeout
            /\ result.taskId = task.id

\* The timer fired first and runTask fulfilled afterwards with a successful
\* trial, which was discarded.
C29_Witness ==
  /\ pc = "resolved"
  /\ winner = "timer"
  /\ runTaskP.state = "fulfilled"
  /\ ~runTaskP.value.isError
  /\ runTaskP.value.output # <<>>
  /\ result.isError
  /\ result.durationMs = timeout
  /\ settlements = 1

\* C30: cleanupLocalSkills runs exactly once before runPipeline returns or
\* throws if and only if setupLocalSkills completed (skillsSetup is true), on
\* the normal path and on every exception path, and never when no skills were
\* set up.
C30_CleanupOnceIffSkillsSetUp ==
  /\ cleanups <= 1
  /\ ~skillsSetup => cleanups = 0
  /\ skillsSetup => (SetupWanted /\ pc \in {"body", "finally", "returned", "thrown"})
  /\ cleanups = 1 => pc \in {"returned", "thrown"}
  /\ pc \in {"returned", "thrown"} =>
       cleanups = IF skillsSetup THEN 1 ELSE 0

\* The skills were set up, a statement of the try block after the first run
\* threw, and runPipeline threw after one cleanup.
C30_Witness ==
  /\ pc = "thrown"
  /\ skillsSetup
  /\ stage > 2
  /\ completion = "throw"
  /\ cleanups = 1

====
